---- MODULE Spec2Model ----
(***************************************************************************)
(* Purchase pipeline of AuraPurchasesManagement:                           *)
(*   CustomerFacingService  : buy() -> KafkaProducer.send_message -> topic *)
(*   CustomerManagementAPI  : KafkaConsumer poll loop -> DatabaseManager   *)
(* Strings are sequences of one-character strings, so that str.strip(),    *)
(* isoformat() and fromisoformat() are modelled by what they do.           *)
(***************************************************************************)
EXTENDS Integers, Sequences, FiniteSets, Bags, TLC

VARIABLES
    prod,       \* KafkaProducer: producer, connected, messages_sent, messages_failed, last_message_time
    cons,       \* KafkaConsumer: consumer, running, consumer_task, messages_processed, messages_failed, last_message_time
    log,        \* the topic partition: the records the broker holds, in offset order
    sends,      \* number of AIOKafkaProducer.send() calls issued so far
    position,   \* fetch position of the partition's owner: the offset it takes next
    inflight,   \* the document, with its record's offset, whose insert_one() the poll loop is awaiting
    fate,       \* per offset taken by the loop: what became of the record
    db,         \* the purchases collection, in insertion order
    pending,    \* buy() requests between generate_purchase_event() and send_message()
    stop_pc,    \* KafkaConsumer.stop(): "idle", or "waiting" in wait_for(consumer_task)
    clock,      \* datetime.utcnow()
    ret,        \* outcome of the last call made on the producer or the consumer
    committed,  \* the offset the consumer group has committed (enable_auto_commit)
    orphans,    \* what KafkaConsumer no longer refers to but is still there: open
                \* AIOKafkaConsumer objects with their loops, unfinished insert threads
    owner,      \* the group member the partition is assigned to: 0 is self.consumer,
                \* i the AIOKafkaConsumer of orphans[i]
    starts,     \* number of KafkaConsumer.start() calls made so far
    publ,        \* the send_message calls made step by step: what each sent and how it ended
    close_pc,    \* where a stop() of the producer made step by step stands
    leaked,      \* open AIOKafkaProducer objects that self.producer no longer names
    failed_saves \* the offsets (counted from 1) of which a save has failed at least once

\* The state of the consumer group and of the objects start() abandoned
grp == <<committed, orphans, owner, starts>>
pub == <<publ, close_pc, leaked>>

vars == <<prod, cons, log, sends, position, inflight, fate, db, pending, stop_pc, clock, ret,
          committed, orphans, owner, starts, failed_saves, publ, close_pc, leaked>>

(* ------------------------------ bounds ------------------------------- *)
MaxLog == 2        \* records the topic may hold
MaxCalls == 2      \* producer send attempts (send_message calls and batch members)
MaxClock == 1      \* readings of the wall clock
MaxPending == 2    \* concurrent buy() requests
MaxBatch == 2      \* messages per send_batch() call
MaxStarts == 2     \* KafkaConsumer.start() calls
MaxOrphans == 1    \* abandoned consumers and insert threads alive at a time
MaxPublish == 3    \* send_message calls followed step by step
MaxLeaked == 1     \* producer connections left open without a handle

(* ------------------------------ strings ------------------------------ *)
None == "None"

RECURSIVE lstrip(_)
lstrip(s) == IF s # <<>> /\ Head(s) = " " THEN lstrip(Tail(s)) ELSE s

RECURSIVE rstrip(_)
rstrip(s) == IF s # <<>> /\ s[Len(s)] = " " THEN rstrip(SubSeq(s, 1, Len(s) - 1)) ELSE s

\* str.strip()
strip(s) == rstrip(lstrip(s))

Digits == <<"0", "1", "2", "3", "4", "5", "6", "7", "8", "9">>

\* datetime.utcnow().isoformat() + "Z"
isoformat_Z(t) == <<"T", Digits[t + 1], "Z">>

\* str.replace('Z', '+00:00')
replace_Z(s) == [i \in 1..Len(s) |-> IF s[i] = "Z" THEN "+00:00" ELSE s[i]]

\* datetime.fromisoformat(): [ok, t]; ok = FALSE stands for the ValueError it raises
fromisoformat(s) ==
    IF /\ Len(s) \in {2, 3}
       /\ s[1] = "T"
       /\ \E i \in 1..Len(Digits) : Digits[i] = s[2]
       /\ Len(s) = 3 => s[3] = "+00:00"
    THEN [ok |-> TRUE, t |-> (CHOOSE i \in 1..Len(Digits) : Digits[i] = s[2]) - 1]
    ELSE [ok |-> FALSE, t |-> 0]

(* --------------------------- Python values --------------------------- *)
\* A Python scalar: a str or a number.
PyStr(s) == [t |-> "str", s |-> s, n |-> 0]
PyNum(n) == [t |-> "num", s |-> <<>>, n |-> n]

\* A Python object handed to / produced by the JSON codec: a dict (a function
\* from keys to scalars) or a bare str.
PyDict(d) == [py |-> "dict", d |-> d]
PyBareStr == [py |-> "str", d |-> <<>>]

PurchaseFields == <<"username", "user_id", "item_name", "price", "timestamp">>
FieldOrder == PurchaseFields \o <<"note">>

Range(f) == {f[i] : i \in DOMAIN f}

(* ------------------------------- JSON -------------------------------- *)
\* One member of a JSON object: "key": string, or "key": [-]digits
JsonMember(k, v) ==
    [k |-> k, str |-> v.t = "str", chars |-> v.s,
     minus |-> v.t = "num" /\ v.n < 0,
     mag |-> IF v.t = "num" THEN (IF v.n < 0 THEN 0 - v.n ELSE v.n) ELSE 0]

RECURSIVE MembersOf(_, _)
MembersOf(d, keys) ==
    IF keys = <<>> THEN <<>>
    ELSE IF Head(keys) \in DOMAIN d
         THEN <<JsonMember(Head(keys), d[Head(keys)])>> \o MembersOf(d, Tail(keys))
         ELSE MembersOf(d, Tail(keys))

\* value_serializer: json.dumps(v).encode('utf-8')
json_dumps(v) ==
    IF v.py = "dict"
    THEN [kind |-> "object", members |-> MembersOf(v.d, FieldOrder)]
    ELSE [kind |-> "string", members |-> <<>>]

\* Bytes on the topic that are not JSON at all.
GarbageBytes == [kind |-> "garbage", members |-> <<>>]

\* Amounts of money are counted in tenths of a cent, so that 49.99 is 49990.
\* A decoder that read numbers as whole units would be MemberValue_truncated.
MemberValue_truncated(m) ==
    IF m.str THEN PyStr(m.chars)
    ELSE PyNum((IF m.minus THEN 0 - m.mag ELSE m.mag) \div 1000)

MemberValue(m) ==
    IF m.str THEN PyStr(m.chars)
    ELSE PyNum(IF m.minus THEN 0 - m.mag ELSE m.mag)

\* value_deserializer: json.loads(m.decode('utf-8')); ok = FALSE stands for
\* the JSONDecodeError it raises
json_loads(b) ==
    IF b.kind = "garbage" THEN [ok |-> FALSE, v |-> PyBareStr]
    ELSE IF b.kind = "string" THEN [ok |-> TRUE, v |-> PyBareStr]
    ELSE [ok |-> TRUE,
          v |-> PyDict([k \in {b.members[i].k : i \in DOMAIN b.members} |->
                   LET last == CHOOSE i \in DOMAIN b.members :
                                  /\ b.members[i].k = k
                                  /\ \A j \in DOMAIN b.members : b.members[j].k = k => j <= i
                   IN MemberValue(b.members[last])])]

(* ---------------------------- data models ---------------------------- *)
\* BuyRequest(**body): both fields required, Field(min_length=1), then the
\* two field validators; ok = FALSE stands for the ValidationError. (The
\* max_length=100 of the fields lies beyond the strings enumerated here.)
\* A validator that returned v instead of v.strip() would be
\* BuyRequest_untrimmed.
BuyRequest_untrimmed(body) ==
    IF /\ {"username", "user_id"} \subseteq DOMAIN body
       /\ Len(body.username) >= 1
       /\ Len(body.user_id) >= 1
       /\ strip(body.username) # <<>>
       /\ strip(body.user_id) # <<>>
    THEN [ok |-> TRUE, username |-> body.username, user_id |-> body.user_id]
    ELSE [ok |-> FALSE, username |-> <<>>, user_id |-> <<>>]

BuyRequest(body) ==
    IF /\ {"username", "user_id"} \subseteq DOMAIN body
       /\ Len(body.username) >= 1
       /\ Len(body.user_id) >= 1
       /\ strip(body.username) # <<>>
       /\ strip(body.user_id) # <<>>
    THEN [ok |-> TRUE, username |-> strip(body.username), user_id |-> strip(body.user_id)]
    ELSE [ok |-> FALSE, username |-> <<>>, user_id |-> <<>>]

\* RANDOM_ITEMS (the catalogue's first entry, 999.99)
RANDOM_ITEMS == {[name |-> <<"L", "a", "p">>, price |-> 999990]}

\* The field checks of the pydantic model shared by PurchaseEvent (producer
\* side) and Purchase (consumer side): five required fields, four of them
\* str, price a number with gt=0. Unknown keys are ignored.
ModelFieldsOk(d) ==
    /\ Range(PurchaseFields) \subseteq DOMAIN d
    /\ \A k \in {"username", "user_id", "item_name", "timestamp"} : d[k].t = "str"
    /\ d["price"].t = "num"
    /\ d["price"].n > 0

\* model_dump(): the five declared fields, nothing else
model_dump(d) == PyDict([k \in Range(PurchaseFields) |-> d[k]])

\* generate_purchase_event(buy_request).model_dump()
generate_purchase_event(req, item, now) ==
    model_dump([username |-> PyStr(req.username),
                user_id |-> PyStr(req.user_id),
                item_name |-> PyStr(item.name),
                price |-> PyNum(item.price),
                timestamp |-> PyStr(isoformat_Z(now))])

\* Purchase(**purchase_data) in the consumer: err is "TypeError" when the
\* value is no mapping, "ValidationError" (a ValueError) when a field check
\* fails.
Purchase(data) ==
    IF data.py # "dict" THEN [ok |-> FALSE, err |-> "TypeError", d |-> <<>>]
    ELSE IF ~ModelFieldsOk(data.d) THEN [ok |-> FALSE, err |-> "ValidationError", d |-> <<>>]
    ELSE [ok |-> TRUE, err |-> None, d |-> model_dump(data.d).d]

(* ------------------------------ broker ------------------------------- *)
\* Errors the broker client can raise from send() or from the send future.
NoError == [cls |-> None, msg |-> ""]
BrokerErrors ==
    {[cls |-> "KafkaTimeoutError", msg |-> "Request timeout"],
     [cls |-> "KafkaError", msg |-> "Send failed"],
     [cls |-> "NotLeaderForPartitionError", msg |-> "Not leader"],
     [cls |-> "RuntimeError", msg |-> "boom"]}

\* except KafkaTimeoutError / except KafkaError: the aiokafka class hierarchy
IsKafkaTimeoutError(e) == e.cls = "KafkaTimeoutError"
IsKafkaError(e) ==
    e.cls \in {"KafkaError", "KafkaTimeoutError", "NotLeaderForPartitionError", "KafkaConnectionError",
               "ProducerClosed"}

\* What one send() attempt meets: stage "ack" (the future yields metadata),
\* "submit" (send() itself raises err) or "future" (the future raises err).
\* landed: whether the broker appended the record although the client saw a
\* timeout.
BrokerOutcomes ==
    {[stage |-> "ack", err |-> NoError, landed |-> TRUE]}
    \cup {[stage |-> st, err |-> e, landed |-> FALSE] : st \in {"submit", "future"}, e \in BrokerErrors}
    \cup {[stage |-> "future", err |-> e, landed |-> TRUE] : e \in {x \in BrokerErrors : IsKafkaTimeoutError(x)}}

\* key_serializer: k.encode('utf-8') if k else None. has = FALSE stands for
\* None; a key with no bytes would be key_serializer_dropped.
key_serializer_dropped(k) == [has |-> FALSE, bytes |-> <<>>]

key_serializer(k) ==
    IF k = <<>> THEN [has |-> FALSE, bytes |-> <<>>]
    ELSE [has |-> TRUE, bytes |-> k]

\* The partitions of the topic
Partitions == {"0", "1"}

\* The partition producer.send(topic, key=..., partition=None) picks: a
\* function of the key's bytes, and for a record without key whichever
\* partition the client likes ("any").
DefaultPartitioner(kb) ==
    IF ~kb.has THEN "any"
    ELSE IF kb.bytes[1] = "v" THEN "1" ELSE "0"

\* The record producer.send(topic, key=key, value=value, partition=partition)
\* appends: serialized key and value, the partition it lands on, and whether
\* the caller named the partition
Record(key, value, partition, acked) ==
    [key |-> key_serializer(key), value |-> json_dumps(value),
     partition |-> IF partition = None THEN DefaultPartitioner(key_serializer(key)) ELSE partition,
     explicit |-> partition # None,
     acked |-> acked, event |-> value]

(* ----------------------------- producer ------------------------------ *)
\* KafkaProducer.is_connected
is_connected(p) == p.connected /\ p.producer # None

\* What await producer.start() raises when no broker answers
KafkaConnectionError == [cls |-> "KafkaConnectionError", msg |-> "Unable to bootstrap"]

\* KafkaProducer.start(): self.producer becomes a new AIOKafkaProducer, which
\* holds a broker connection ("open") once its start() has returned and none
\* ("closed") when start() raised. A handler that left the flag as it was
\* would be start_keeps_flag.
start_keeps_flag(p, ok) ==
    [p EXCEPT !.producer = IF ok THEN "open" ELSE "closed",
              !.connected = ok \/ @]

start(p, ok) ==
    [p EXCEPT !.producer = IF ok THEN "open" ELSE "closed",
              !.connected = ok]

\* KafkaProducer.stop(): with a producer object, flush() then stop() inside
\* one try; drained = FALSE stands for flush() raising, which skips stop().
\* The flag is cleared in every case. A stop that also cleared the metrics
\* would be stop_resetting.
stop_resetting(p, drained) ==
    [p EXCEPT !.producer = IF p.producer # None /\ drained THEN "closed" ELSE @,
              !.connected = FALSE, !.messages_sent = 0, !.messages_failed = 0]

stop(p, drained) ==
    [p EXCEPT !.producer = IF p.producer # None /\ drained THEN "closed" ELSE @,
              !.connected = FALSE]

\* The three except clauses of send_message: the error the caller receives
\* for an error e raised inside the try block. A handler that re-raised the
\* timeout unchanged would be send_message_reraises.
send_message_reraises(e) ==
    IF IsKafkaError(e) THEN e
    ELSE [cls |-> "KafkaError", msg |-> "Failed to send message"]

send_message_raises(e) ==
    IF IsKafkaTimeoutError(e) THEN [cls |-> "KafkaError", msg |-> "Timeout sending message"]
    ELSE IF IsKafkaError(e) THEN e
    ELSE [cls |-> "KafkaError", msg |-> "Failed to send message"]

NotConnectedError == [cls |-> "ValueError", msg |-> "Kafka producer is not connected"]

\* Producer counters after one acknowledged / one failed send. A failure
\* counted in two handlers would be CountFailed_twice.
CountSent(p, now) ==
    [p EXCEPT !.messages_sent = @ + 1, !.last_message_time = <<now>>]

CountFailed_twice(p) == [p EXCEPT !.messages_failed = @ + 2]

CountFailed(p) == [p EXCEPT !.messages_failed = @ + 1]

\* The try block of send_message meeting broker outcome bo at time now: the
\* new producer, log and send count, and what the caller gets (raised =
\* NoError: the RecordMetadata with that offset).
send_message_try(p, lg, ns, key, value, partition, bo, now) ==
    IF bo.stage = "ack"
    THEN [prod |-> CountSent(p, now),
          log |-> Append(lg, Record(key, value, partition, TRUE)),
          sends |-> ns + 1,
          raised |-> NoError, offset |-> Len(lg)]
    ELSE [prod |-> CountFailed(p),
          log |-> IF bo.landed THEN Append(lg, Record(key, value, partition, FALSE)) ELSE lg,
          sends |-> ns + 1,
          raised |-> send_message_raises(bo.err), offset |-> 0]

\* send_message without its readiness check
send_message_unchecked(p, lg, ns, key, value, partition, bo, now) ==
    send_message_try(p, lg, ns, key, value, partition, bo, now)

\* KafkaProducer.send_message(key, value, partition)
send_message(p, lg, ns, key, value, partition, bo, now) ==
    IF ~is_connected(p)
    THEN [prod |-> p, log |-> lg, sends |-> ns,
          raised |-> NotConnectedError, offset |-> 0]
    ELSE send_message_try(p, lg, ns, key, value, partition, bo, now)

\* One member of a batch after the acknowledgment loop of send_batch:
\* results.append(record_metadata) or results.append(None)
BatchResult(bo, offset) ==
    IF bo.stage = "ack" THEN [ok |-> TRUE, offset |-> offset]
    ELSE [ok |-> FALSE, offset |-> 0]

\* KafkaProducer.send_batch(messages) on a connected producer, message i
\* meeting broker outcome bos[i]: first the submission loop (a send() that
\* raises leaves send_batch with that exception), then the acknowledgment
\* loop over the futures.
RECURSIVE send_batch_from(_, _, _, _, _, _, _)
send_batch_from(p, lg, ns, messages, bos, now, i) ==
    IF i > Len(messages)
    THEN [prod |-> [p EXCEPT !.last_message_time = <<now>>], log |-> lg, sends |-> ns,
          raised |-> NoError, results |-> <<>>]
    ELSE LET bo == bos[i]
             lands == bo.stage = "ack" \/ bo.landed
             lg2 == IF lands
                    THEN Append(lg, Record(messages[i].key, messages[i].value, None, bo.stage = "ack"))
                    ELSE lg
             p2 == IF bo.stage = "ack"
                   THEN [p EXCEPT !.messages_sent = @ + 1]
                   ELSE CountFailed(p)
             rest == send_batch_from(p2, lg2, ns + 1, messages, bos, now, i + 1)
         IN [rest EXCEPT !.results = <<BatchResult(bo, Len(lg))>> \o @]

\* Index of the first message whose send() raises at submission, 0 if none
FirstSubmitFailure(bos) ==
    IF \E i \in DOMAIN bos : bos[i].stage = "submit"
    THEN CHOOSE i \in DOMAIN bos :
            /\ bos[i].stage = "submit"
            /\ \A j \in DOMAIN bos : bos[j].stage = "submit" => i <= j
    ELSE 0

RECURSIVE Submitted(_, _, _, _)
Submitted(lg, messages, bos, n) ==
    IF n = 0 THEN lg
    ELSE LET before == Submitted(lg, messages, bos, n - 1)
         IN IF bos[n].stage = "ack" \/ bos[n].landed
            THEN Append(before, Record(messages[n].key, messages[n].value, None, FALSE))
            ELSE before

send_batch(p, lg, ns, messages, bos, now) ==
    IF ~is_connected(p)
    THEN [prod |-> p, log |-> lg, sends |-> ns, raised |-> NotConnectedError, results |-> <<>>]
    ELSE LET f == FirstSubmitFailure(bos)
         IN IF f > 0
            THEN [prod |-> p, log |-> Submitted(lg, messages, bos, f - 1), sends |-> ns + f,
                  raised |-> bos[f].err, results |-> <<>>]
            ELSE send_batch_from(p, lg, ns, messages, bos, now, 1)

(* ------------------------------- inputs ------------------------------ *)
UserA == <<"u">>
UserB == <<"v">>

EventDict(username, user_id, price, timestamp) ==
    [username |-> PyStr(username), user_id |-> PyStr(user_id),
     item_name |-> PyStr(<<"L", "a", "p">>), price |-> PyNum(price),
     timestamp |-> PyStr(timestamp)]

ValidValue == PyDict(EventDict(<<"a">>, UserA, 49990, isoformat_Z(0)))
BlankNameValue == PyDict(EventDict(<<" ">>, UserA, 49990, isoformat_Z(0)))
BlankUserIdValue == PyDict(EventDict(<<"a">>, <<>>, 49990, isoformat_Z(0)))
ZeroPriceValue == PyDict(EventDict(<<"a">>, UserA, 0, isoformat_Z(0)))
NegPriceValue == PyDict(EventDict(<<"a">>, UserA, 0 - 10000, isoformat_Z(0)))
BadTimestampValue == PyDict(EventDict(<<"a">>, UserA, 49990, <<"n", "o", "w">>))
MissingFieldsValue == PyDict([username |-> PyStr(<<"a">>)])
ExtraKeyValue == PyDict([k \in Range(FieldOrder) |-> IF k = "note" THEN PyStr(<<"x">>) ELSE ValidValue.d[k]])

\* Values a caller may hand to send_message / send_batch
ApiValues == {ValidValue, BlankNameValue, NegPriceValue}

\* What the members of a batch meet
BatchOutcomes ==
    {bo \in BrokerOutcomes :
        \/ bo.stage = "ack"
        \/ bo.err.cls = "KafkaError"
        \/ bo.stage = "future" /\ IsKafkaTimeoutError(bo.err) /\ bo.landed}

\* What the send of a buy request meets
BuyOutcomes ==
    {bo \in BrokerOutcomes :
        \/ bo.stage = "ack"
        \/ bo.stage = "future" /\ bo.err.cls \in {"KafkaError", "KafkaTimeoutError"} /\ ~bo.landed}

\* Payloads any producer of the topic may have written
WirePayloads ==
    {GarbageBytes} \cup
    {json_dumps(v) : v \in {ValidValue, BlankNameValue, BlankUserIdValue, ZeroPriceValue,
                            NegPriceValue, BadTimestampValue, MissingFieldsValue,
                            ExtraKeyValue, PyBareStr}}

RawNames == {<<"a">>, <<" ", "a", " ">>, <<" ">>, <<>>}
RawUserIds == {UserA, <<"u", " ">>, UserB, <<" ", " ">>}

\* JSON bodies of POST /buy: both fields, or one of them missing
BuyBodies ==
    {[username |-> n, user_id |-> u] : n \in RawNames, u \in RawUserIds}
    \cup {[username |-> <<"a">>], [user_id |-> UserA]}

(* ------------------------------ actions ------------------------------ *)
NoTime == <<>>

\* The slots of orphans; a free slot holds nothing
Slots == 1..MaxOrphans
FreeSlot == [consumer |-> "closed", task |-> "none", inflight |-> <<>>]

Ret(op, raised, cause, results, batch) ==
    [op |-> op, seq |-> 1 - ret.seq, raised |-> raised, cause |-> cause,
     results |-> results, batch |-> batch]

Init ==
    /\ prod = [producer |-> None, connected |-> FALSE, messages_sent |-> 0,
               messages_failed |-> 0, last_message_time |-> NoTime]
    /\ cons = [consumer |-> None, running |-> FALSE, consumer_task |-> None,
               messages_processed |-> 0, messages_failed |-> 0,
               last_message_time |-> NoTime]
    /\ log = <<>>
    /\ sends = 0
    /\ position = 0
    /\ inflight = <<>>
    /\ fate = <<>>
    /\ db = <<>>
    /\ pending = EmptyBag
    /\ stop_pc = "idle"
    /\ clock = 0
    /\ committed = 0
    /\ orphans = [i \in Slots |-> FreeSlot]
    /\ owner = 0
    /\ starts = 0
    /\ failed_saves = {}
    /\ publ = <<>>
    /\ close_pc = "idle"
    /\ leaked = 0
    /\ ret = [op |-> None, seq |-> 0, raised |-> NoError, cause |-> NoError,
              results |-> <<>>, batch |-> <<>>]

\* the wall clock advances
Tick ==
    /\ clock < MaxClock
    /\ clock' = clock + 1
    /\ UNCHANGED <<prod, cons, log, sends, position, inflight, fate, db, pending, stop_pc, ret, grp, failed_saves, pub>>

\* KafkaProducer.start(): AIOKafkaProducer(...), then await producer.start()
\* The AIOKafkaProducer self.producer named before is not stopped: if it was
\* open it stays open, and nothing refers to it any more.
ProducerStart(ok) ==
    /\ prod.producer = "open" => leaked < MaxLeaked
    /\ prod' = start(prod, ok)
    /\ leaked' = IF prod.producer = "open" THEN leaked + 1 ELSE leaked
    /\ ret' = Ret("start", IF ok THEN NoError ELSE KafkaConnectionError, NoError, <<>>, <<>>)
    /\ UNCHANGED <<cons, log, sends, position, inflight, fate, db, pending, stop_pc, clock, grp, failed_saves,
                   publ, close_pc>>

\* KafkaProducer.stop(): flush and stop inside try/except, then connected = False
ProducerStop(drained) ==
    /\ prod' = stop(prod, drained)
    /\ ret' = Ret("stop", NoError, NoError, <<>>, <<>>)
    /\ UNCHANGED <<cons, log, sends, position, inflight, fate, db, pending, stop_pc, clock, grp, failed_saves, pub>>

\* A caller awaits KafkaProducer.send_message(key, value)
SendMessage(key, value, bo) ==
    /\ Len(log) < MaxLog
    /\ sends < MaxCalls
    /\ LET r == send_message(prod, log, sends, key, value, None, bo, clock)
       IN /\ prod' = r.prod
          /\ log' = r.log
          /\ sends' = r.sends
          /\ ret' = Ret("send_message", r.raised,
                        IF is_connected(prod) THEN bo.err ELSE NoError,
                        <<[ok |-> r.raised = NoError, offset |-> r.offset]>>,
                        <<[key |-> key, value |-> value]>>)
    /\ UNCHANGED <<cons, position, inflight, fate, db, pending, stop_pc, clock, grp, failed_saves, pub>>

\* A caller awaits KafkaProducer.send_batch(messages)
SendBatch(messages, bos) ==
    /\ Len(log) + Len(messages) <= MaxLog
    /\ sends + Len(messages) <= MaxCalls
    /\ LET r == send_batch(prod, log, sends, messages, bos, clock)
       IN /\ prod' = r.prod
          /\ log' = r.log
          /\ sends' = r.sends
          /\ ret' = Ret("send_batch", r.raised, NoError, r.results, messages)
    /\ UNCHANGED <<cons, position, inflight, fate, db, pending, stop_pc, clock, grp, failed_saves, pub>>

Messages == {[key |-> v.d["user_id"].s, value |-> v] : v \in {ValidValue, BlankNameValue}}

Batches == UNION {[1..n -> Messages] : n \in 0..MaxBatch}

NextProducer ==
    \/ Tick
    \/ \E ok \in BOOLEAN : ProducerStart(ok)
    \/ \E drained \in BOOLEAN : ProducerStop(drained)
    \/ \E v \in ApiValues, bo \in BrokerOutcomes : SendMessage(UserA, v, bo)
    \/ \E ms \in Batches : \E bos \in [1..Len(ms) -> BatchOutcomes] : SendBatch(ms, bos)

SpecProducer == Init /\ [][NextProducer]_vars

(* -------------------------------- buy -------------------------------- *)
HttpError(code) == [cls |-> "HTTPException", msg |-> code]

\* What POST /buy raises when send_message raised e: except Exception ->
\* 500. A handler answering 503 would be buy_raises_unavailable.
buy_raises_unavailable(e) == IF e = NoError THEN NoError ELSE HttpError("503")

\* A handler that answered success whatever send_message raised would be
\* buy_raises_swallowing.
buy_raises_swallowing(e) == NoError

buy_raises(e) == IF e = NoError THEN NoError ELSE HttpError("500")

\* POST /buy up to the await of send_message: request validation, the
\* readiness check, generate_purchase_event with the current time
BuyGenerate(body, item) ==
    /\ BagCardinality(pending) < MaxPending
    /\ LET req == BuyRequest(body)
       IN IF ~req.ok
          THEN /\ ret' = Ret("buy", HttpError("422"), NoError, <<>>, <<>>)
               /\ UNCHANGED pending
          ELSE IF ~is_connected(prod)
          THEN /\ ret' = Ret("buy", HttpError("503"), NoError, <<>>, <<>>)
               /\ UNCHANGED pending
          ELSE /\ pending' = pending (+) SetToBag({generate_purchase_event(req, item, clock)})
               /\ UNCHANGED ret
    /\ UNCHANGED <<prod, cons, log, sends, position, inflight, fate, db, stop_pc, clock, grp, failed_saves, pub>>

\* POST /buy from the await of send_message(key=user_id, value=model_dump())
\* to the response: 201 with the offset, or 500 for any exception
BuySend(ev, bo) ==
    /\ BagIn(ev, pending)
    /\ Len(log) < MaxLog
    /\ sends < MaxCalls
    /\ LET r == send_message(prod, log, sends, ev.d["user_id"].s, ev, None, bo, clock)
       IN /\ prod' = r.prod
          /\ log' = r.log
          /\ sends' = r.sends
          /\ ret' = Ret("buy", buy_raises(r.raised),
                        IF is_connected(prod) THEN bo.err ELSE NoError,
                        <<[ok |-> r.raised = NoError, offset |-> r.offset]>>, <<>>)
    /\ pending' = pending (-) SetToBag({ev})
    /\ UNCHANGED <<cons, position, inflight, fate, db, stop_pc, clock, grp, failed_saves, pub>>

(* ----------------------------- consumer ------------------------------ *)
\* KafkaConsumer.is_running
is_running(c) == c.running /\ c.consumer # None

\* Some other producer of the topic appends a record
TopicPublish(b) ==
    /\ Len(log) < MaxLog
    /\ log' = Append(log, [key |-> key_serializer(<<"x">>), value |-> b, partition |-> "0",
                           explicit |-> TRUE, acked |-> FALSE, event |-> PyBareStr])
    /\ UNCHANGED <<prod, cons, sends, position, inflight, fate, db, pending, stop_pc, clock, ret, grp, failed_saves, pub>>

\* start() rebinds self.consumer while the task of an earlier start() goes on
\* iterating the object it was created with. Such a task is "held" in a slot
\* of orphans as long as self.consumer_task refers to it; its state is then
\* cons.consumer_task and its document in flight is inflight.
HeldSlots == {i \in Slots : orphans[i].task = "held"}

\* The AIOKafkaConsumer the task self.consumer_task iterates
TaskHandle == IF HeldSlots = {} THEN 0 ELSE CHOOSE i \in HeldSlots : TRUE

HandleOpen(c, orph, h) == IF h = 0 THEN c.consumer = "open" ELSE orph[h].consumer = "open"

\* The members of the consumer group: the started, unstopped AIOKafkaConsumers
Members(c, orph) == {h \in 0..MaxOrphans : HandleOpen(c, orph, h)}

HasFree(orph) == \E i \in Slots : orph[i] = FreeSlot

FirstFree(orph) ==
    CHOOSE i \in Slots : orph[i] = FreeSlot /\ \A j \in Slots : orph[j] = FreeSlot => i <= j

Adopt(orph, e) == [orph EXCEPT ![FirstFree(orph)] = e]

\* fate with the entry of the record at 1-based offset o set to x
SetFate(f, o, x) ==
    [i \in 1..(IF o > Len(f) THEN o ELSE Len(f)) |-> IF i = o THEN x ELSE f[i]]

\* A start() that spawned the loop before awaiting the subscription would be
\* ConsumerStartBegin_spawning.
ConsumerStartBegin_spawning ==
    /\ stop_pc = "idle"
    /\ cons.consumer = None
    /\ starts < MaxStarts
    /\ starts' = starts + 1
    /\ cons' = [cons EXCEPT !.consumer = "starting", !.running = TRUE, !.consumer_task = "alive"]
    /\ UNCHANGED <<prod, log, sends, position, inflight, fate, db, pending, stop_pc, clock, ret,
                   committed, orphans, owner, failed_saves, pub>>

\* lifespan startup: KafkaConsumer.start() up to the await of
\* self.consumer.start()
ConsumerStartBegin ==
    /\ stop_pc = "idle"
    /\ cons.consumer = None
    /\ starts < MaxStarts
    /\ starts' = starts + 1
    /\ cons' = [cons EXCEPT !.consumer = "starting"]
    /\ UNCHANGED <<prod, log, sends, position, inflight, fate, db, pending, stop_pc, clock, ret,
                   committed, orphans, owner, failed_saves, pub>>

\* KafkaConsumer.start() called again, on an instance that already has a
\* consumer object: self.consumer is rebound to a new AIOKafkaConsumer; the
\* old one, if open, stays open with nobody referring to it
ConsumerRestartBegin ==
    /\ stop_pc = "idle"
    /\ cons.consumer \in {"open", "closed"}
    /\ starts < MaxStarts
    /\ cons.consumer = "open" => HasFree(orphans)
    /\ starts' = starts + 1
    /\ cons' = [cons EXCEPT !.consumer = "starting"]
    /\ IF cons.consumer = "open"
       THEN /\ orphans' = Adopt(orphans, [consumer |-> "open", task |-> "held", inflight |-> <<>>])
            /\ owner' = IF owner = 0 THEN FirstFree(orphans) ELSE owner
       ELSE UNCHANGED <<orphans, owner>>
    /\ UNCHANGED <<prod, log, sends, position, inflight, fate, db, pending, stop_pc, clock, ret,
                   committed, failed_saves, pub>>

\* A start() that resumed at the first record of the partition whatever the
\* group has committed would be ConsumerStart_rewinding.
ConsumerStart_rewinding(ok) ==
    /\ cons.consumer = "starting"
    /\ IF ok
       THEN /\ cons' = [cons EXCEPT !.consumer = "open", !.running = TRUE, !.consumer_task = "alive"]
            /\ orphans' = [i \in Slots |->
                             IF orphans[i].task = "held"
                             THEN [consumer |-> "open", task |-> cons.consumer_task, inflight |-> inflight]
                             ELSE orphans[i]]
            /\ inflight' = <<>>
            /\ owner' \in Members(cons', orphans')
            /\ position' = 0
       ELSE /\ cons' = [cons EXCEPT !.consumer = "closed"]
            /\ UNCHANGED <<orphans, inflight, owner, position>>
    /\ ret' = Ret("consumer_start", IF ok THEN NoError ELSE KafkaConnectionError, NoError, <<>>, <<>>)
    /\ UNCHANGED <<prod, log, sends, fate, db, pending, stop_pc, clock, committed, starts, failed_saves, pub>>

\* KafkaConsumer.start() from the return of await self.consumer.start():
\* running = True and create_task(_consume_loop()), or the exception
\* re-raised. A new member makes the group rebalance: the partition goes to
\* some member, which resumes at the committed offset.
ConsumerStart(ok) ==
    /\ cons.consumer = "starting"
    /\ IF ok
       THEN /\ cons' = [cons EXCEPT !.consumer = "open", !.running = TRUE, !.consumer_task = "alive"]
            /\ orphans' = [i \in Slots |->
                             IF orphans[i].task = "held"
                             THEN [consumer |-> "open", task |-> cons.consumer_task, inflight |-> inflight]
                             ELSE orphans[i]]
            /\ inflight' = <<>>
            /\ owner' \in Members(cons', orphans')
            /\ position' = committed
       ELSE /\ cons' = [cons EXCEPT !.consumer = "closed"]
            /\ UNCHANGED <<orphans, inflight, owner, position>>
    /\ ret' = Ret("consumer_start", IF ok THEN NoError ELSE KafkaConnectionError, NoError, <<>>, <<>>)
    /\ UNCHANGED <<prod, log, sends, fate, db, pending, stop_pc, clock, committed, starts, failed_saves, pub>>

\* The document save_purchase builds before insert_one: model_dump() plus
\* timestamp_dt; ok = FALSE stands for the ValueError of fromisoformat
purchase_dict(d) ==
    LET dt == fromisoformat(replace_Z(d["timestamp"].s))
    IN [ok |-> dt.ok,
        doc |-> [username |-> d["username"].s, user_id |-> d["user_id"].s,
                 item_name |-> d["item_name"].s, price |-> d["price"].n,
                 timestamp |-> d["timestamp"].s, timestamp_dt |-> dt.t]]

CountProcessed(c, now) ==
    [c EXCEPT !.messages_processed = @ + 1, !.last_message_time = <<now>>]

\* A handler that forgot the metric would be CountConsumerFailed_forgotten.
CountConsumerFailed_forgotten(c) == c

CountConsumerFailed(c) == [c EXCEPT !.messages_failed = @ + 1]

\* One turn of "async for message in self.consumer" up to the next await:
\* the fetch with its value_deserializer, the running check, and
\* _process_message up to the await of insert_one.
LoopFetch ==
    /\ cons.consumer_task = "alive"
    /\ HandleOpen(cons, orphans, TaskHandle)
    /\ owner = TaskHandle
    /\ inflight = <<>>
    /\ position < Len(log)
    /\ position' = position + 1
    /\ LET msg == log[position + 1]
           value == json_loads(msg.value)
           purchase == Purchase(value.v)
           pd == purchase_dict(purchase.d)
       IN IF ~value.ok
          THEN \* the deserializer raises inside the iteration: except Exception, loop ended
               /\ cons' = [cons EXCEPT !.consumer_task = "done"]
               /\ fate' = SetFate(fate, position + 1, "undecodable")
               /\ UNCHANGED inflight
          ELSE IF ~cons.running
          THEN \* break
               /\ cons' = [cons EXCEPT !.consumer_task = "done"]
               /\ fate' = SetFate(fate, position + 1, "dropped")
               /\ UNCHANGED inflight
          ELSE IF ~purchase.ok
          THEN /\ cons' = CountConsumerFailed(cons)
               /\ fate' = SetFate(fate, position + 1, "invalid")
               /\ UNCHANGED inflight
          ELSE IF ~pd.ok
          THEN /\ cons' = CountConsumerFailed(cons)
               /\ fate' = SetFate(fate, position + 1, "bad_timestamp")
               /\ UNCHANGED inflight
          ELSE /\ inflight' = <<[doc |-> pd.doc, offset |-> position]>>
               /\ fate' = SetFate(fate, position + 1, "saving")
               /\ UNCHANGED cons
    /\ failed_saves' = IF fate'[position + 1] = "bad_timestamp"
                       THEN failed_saves \cup {position + 1} ELSE failed_saves
    /\ UNCHANGED <<prod, log, sends, db, pending, stop_pc, clock, ret, grp, pub>>

\* The document as the collection stores it
Stored(doc, offset) ==
    [_id |-> Len(db), username |-> doc.username, user_id |-> doc.user_id,
     item_name |-> doc.item_name, price |-> doc.price, timestamp |-> doc.timestamp,
     timestamp_dt |-> doc.timestamp_dt, offset |-> offset]

\* A loop that called save_purchase again after a failed save would be
\* LoopSaveDone_retrying.
LoopSaveDone_retrying(ok) ==
    /\ cons.consumer_task = "alive"
    /\ inflight # <<>>
    /\ inflight' = IF ok THEN <<>> ELSE inflight
    /\ IF ok
       THEN /\ db' = Append(db, Stored(inflight[1].doc, inflight[1].offset))
            /\ cons' = CountProcessed(cons, clock)
            /\ fate' = [fate EXCEPT ![inflight[1].offset + 1] = "persisted"]
       ELSE /\ cons' = CountConsumerFailed(cons)
            /\ fate' = [fate EXCEPT ![inflight[1].offset + 1] = "save_failed"]
            /\ UNCHANGED db
    /\ failed_saves' = IF ok THEN failed_saves ELSE failed_saves \cup {inflight[1].offset + 1}
    /\ UNCHANGED <<prod, log, sends, position, pending, stop_pc, clock, ret, grp, pub>>

\* insert_one returns or raises; _process_message updates the metrics
LoopSaveDone(ok) ==
    /\ cons.consumer_task = "alive"
    /\ inflight # <<>>
    /\ inflight' = <<>>
    /\ IF ok
       THEN /\ db' = Append(db, Stored(inflight[1].doc, inflight[1].offset))
            /\ cons' = CountProcessed(cons, clock)
            /\ fate' = [fate EXCEPT ![inflight[1].offset + 1] = "persisted"]
       ELSE /\ cons' = CountConsumerFailed(cons)
            /\ fate' = [fate EXCEPT ![inflight[1].offset + 1] = "save_failed"]
            /\ UNCHANGED db
    /\ failed_saves' = IF ok THEN failed_saves ELSE failed_saves \cup {inflight[1].offset + 1}
    /\ UNCHANGED <<prod, log, sends, position, pending, stop_pc, clock, ret, grp, pub>>

\* A commit that waited for the save in flight would be AutoCommit_after_save.
AutoCommit_after_save ==
    /\ HandleOpen(cons, orphans, owner)
    /\ committed < position
    /\ inflight = <<>>
    /\ committed' = position
    /\ UNCHANGED <<prod, cons, log, sends, position, inflight, fate, db, pending, stop_pc, clock, ret,
                   orphans, owner, starts, failed_saves, pub>>

\* The periodic commit of enable_auto_commit=True: the group's committed
\* offset becomes the owner's fetch position
AutoCommit ==
    /\ HandleOpen(cons, orphans, owner)
    /\ committed < position
    /\ committed' = position
    /\ UNCHANGED <<prod, cons, log, sends, position, inflight, fate, db, pending, stop_pc, clock, ret,
                   orphans, owner, starts, failed_saves, pub>>

\* lifespan shutdown: KafkaConsumer.stop() on a running consumer, up to the
\* await of wait_for
StopBegin ==
    /\ stop_pc = "idle"
    /\ cons.running
    /\ cons.consumer # "starting"
    /\ cons' = [cons EXCEPT !.running = FALSE]
    /\ stop_pc' = "waiting"
    /\ UNCHANGED <<prod, log, sends, position, inflight, fate, db, pending, clock, ret, grp, failed_saves, pub>>

\* What stop() awaits after clearing the flag
StopCalls(c) ==
    (IF c.consumer_task # None THEN <<[call |-> "wait_for"]>> ELSE <<>>)
    \o (IF c.consumer # None THEN <<[call |-> "consumer.stop"]>> ELSE <<>>)

\* "if self.consumer: await self.consumer.stop()" with c2 and orph2 the
\* consumer and the orphans after the call: an open consumer closes, with a
\* last commit of its position if it owns the partition and the commit gets
\* through; the group rebalances among the members left.
Leave(c2, orph2) ==
    /\ committed' \in IF cons.consumer = "open" /\ owner = 0 THEN {committed, position} ELSE {committed}
    /\ IF cons.consumer = "open"
       THEN IF Members(c2, orph2) = {}
            THEN /\ owner' = 0
                 /\ UNCHANGED position
            ELSE /\ owner' \in Members(c2, orph2)
                 /\ position' = committed'
       ELSE UNCHANGED <<owner, position>>

\* wait_for returns because the loop has ended; consumer.stop()
StopTaskDone ==
    /\ stop_pc = "waiting"
    /\ cons.consumer_task = "done"
    /\ cons' = [cons EXCEPT !.consumer = IF @ = None THEN None ELSE "closed"]
    /\ stop_pc' = "idle"
    /\ Leave(cons', orphans)
    /\ ret' = Ret("consumer_stop", NoError, NoError, StopCalls(cons), <<>>)
    /\ UNCHANGED <<prod, log, sends, inflight, fate, db, pending, clock, orphans, starts, failed_saves, pub>>

\* What becomes of an insert_one whose awaiting task is cancelled: it had
\* reached the collection, it never does, or its thread is still at it
InsertFates == {"landed", "lost", "pending"}

\* wait_for times out and the task is cancelled; consumer.stop()
StopTimeout(insert_fate) ==
    /\ stop_pc = "waiting"
    /\ cons.consumer_task = "alive"
    /\ stop_pc' = "idle"
    /\ inflight' = <<>>
    /\ cons' = [cons EXCEPT !.consumer_task = "done",
                            !.consumer = IF @ = None THEN None ELSE "closed"]
    /\ IF inflight # <<>>
       THEN /\ fate' = [fate EXCEPT ![inflight[1].offset + 1] = "cancelled"]
            /\ db' = IF insert_fate = "landed"
                     THEN Append(db, Stored(inflight[1].doc, inflight[1].offset)) ELSE db
       ELSE /\ insert_fate = "lost"
            /\ UNCHANGED <<fate, db>>
    /\ (insert_fate = "pending") => HasFree(orphans)
    /\ orphans' = LET released == [i \in Slots |->
                                     IF orphans[i].task = "held"
                                     THEN [consumer |-> "open", task |-> "done", inflight |-> <<>>]
                                     ELSE orphans[i]]
                  IN IF insert_fate = "pending"
                     THEN Adopt(released, [consumer |-> "closed", task |-> "thread", inflight |-> inflight])
                     ELSE released
    /\ Leave(cons', orphans')
    /\ ret' = Ret("consumer_stop", NoError, NoError, StopCalls(cons), <<>>)
    /\ UNCHANGED <<prod, log, sends, pending, clock, starts, failed_saves, pub>>

\* A stop() that cleared the metrics of a stopped consumer would be
\* StopStopped_clearing.
StopStopped_clearing ==
    /\ stop_pc = "idle"
    /\ ~cons.running
    /\ cons.consumer # "starting"
    /\ cons.consumer_task # "alive"
    /\ cons' = [cons EXCEPT !.consumer = IF @ = None THEN None ELSE "closed",
                            !.messages_processed = 0, !.messages_failed = 0]
    /\ Leave(cons', orphans)
    /\ ret' = Ret("consumer_stop", NoError, NoError, StopCalls(cons), <<>>)
    /\ UNCHANGED <<prod, log, sends, inflight, fate, db, pending, stop_pc, clock, orphans, starts, failed_saves, pub>>

\* KafkaConsumer.stop() on a consumer whose running flag is already false:
\* never started, start failed, or stopped before
StopStopped ==
    /\ stop_pc = "idle"
    /\ ~cons.running
    /\ cons.consumer # "starting"
    /\ cons.consumer_task # "alive"
    /\ cons' = [cons EXCEPT !.consumer = IF @ = None THEN None ELSE "closed"]
    /\ Leave(cons', orphans)
    /\ ret' = Ret("consumer_stop", NoError, NoError, StopCalls(cons), <<>>)
    /\ UNCHANGED <<prod, log, sends, inflight, fate, db, pending, stop_pc, clock, orphans, starts, failed_saves, pub>>

\* The insert_one of a cancelled task reaches the collection after all
LateInsert(i) ==
    /\ orphans[i].task = "thread"
    /\ db' = Append(db, Stored(orphans[i].inflight[1].doc, orphans[i].inflight[1].offset))
    /\ orphans' = [orphans EXCEPT ![i] = FreeSlot]
    /\ UNCHANGED <<prod, cons, log, sends, position, inflight, fate, pending, stop_pc, clock, ret,
                   committed, owner, starts, failed_saves, pub>>

\* One turn of the loop of an abandoned consumer: as LoopFetch, on the same
\* KafkaConsumer object (its running flag, its counters, its db_manager)
OrphanFetch(i) ==
    /\ orphans[i].task = "alive"
    /\ orphans[i].consumer = "open"
    /\ owner = i
    /\ orphans[i].inflight = <<>>
    /\ position < Len(log)
    /\ position' = position + 1
    /\ LET msg == log[position + 1]
           value == json_loads(msg.value)
           purchase == Purchase(value.v)
           pd == purchase_dict(purchase.d)
       IN IF ~value.ok
          THEN /\ orphans' = [orphans EXCEPT ![i].task = "done"]
               /\ fate' = SetFate(fate, position + 1, "undecodable")
               /\ UNCHANGED cons
          ELSE IF ~cons.running
          THEN /\ orphans' = [orphans EXCEPT ![i].task = "done"]
               /\ fate' = SetFate(fate, position + 1, "dropped")
               /\ UNCHANGED cons
          ELSE IF ~purchase.ok
          THEN /\ cons' = CountConsumerFailed(cons)
               /\ fate' = SetFate(fate, position + 1, "invalid")
               /\ UNCHANGED orphans
          ELSE IF ~pd.ok
          THEN /\ cons' = CountConsumerFailed(cons)
               /\ fate' = SetFate(fate, position + 1, "bad_timestamp")
               /\ UNCHANGED orphans
          ELSE /\ orphans' = [orphans EXCEPT ![i].inflight = <<[doc |-> pd.doc, offset |-> position]>>]
               /\ fate' = SetFate(fate, position + 1, "saving")
               /\ UNCHANGED cons
    /\ failed_saves' = IF fate'[position + 1] = "bad_timestamp"
                       THEN failed_saves \cup {position + 1} ELSE failed_saves
    /\ UNCHANGED <<prod, log, sends, inflight, db, pending, stop_pc, clock, ret,
                   committed, owner, starts, pub>>

\* insert_one returns or raises in the loop of an abandoned consumer
OrphanSaveDone(i, ok) ==
    /\ orphans[i].task = "alive"
    /\ orphans[i].inflight # <<>>
    /\ orphans' = [orphans EXCEPT ![i].inflight = <<>>]
    /\ LET job == orphans[i].inflight[1]
       IN IF ok
          THEN /\ db' = Append(db, Stored(job.doc, job.offset))
               /\ cons' = CountProcessed(cons, clock)
               /\ fate' = [fate EXCEPT ![job.offset + 1] = "persisted"]
          ELSE /\ cons' = CountConsumerFailed(cons)
               /\ fate' = [fate EXCEPT ![job.offset + 1] = "save_failed"]
               /\ UNCHANGED db
    /\ failed_saves' = IF ok THEN failed_saves
                       ELSE failed_saves \cup {orphans[i].inflight[1].offset + 1}
    /\ UNCHANGED <<prod, log, sends, position, inflight, pending, stop_pc, clock, ret,
                   committed, owner, starts, pub>>

\* The consumer service as its lifespan drives it: one start, one stop
ConsumerStep ==
    \/ ConsumerStartBegin
    \/ \E ok \in BOOLEAN : ConsumerStart(ok)
    \/ LoopFetch
    \/ \E ok \in BOOLEAN : LoopSaveDone(ok)
    \/ AutoCommit
    \/ StopBegin
    \/ StopTaskDone
    \/ \E f \in InsertFates : StopTimeout(f)
    \/ \E i \in Slots : LateInsert(i)

NextConsumer ==
    \/ Tick
    \/ \E b \in WirePayloads : TopicPublish(b)
    \/ ConsumerStep

SpecConsumer == Init /\ [][NextConsumer]_vars

\* Payloads on the topic while the consumer is started and stopped
LifecyclePayloads == {GarbageBytes, json_dumps(ValidValue)}

\* The consumer under any sequence of start() and stop() calls
NextLifecycle ==
    \/ \E b \in LifecyclePayloads : TopicPublish(b)
    \/ ConsumerStep
    \/ ConsumerRestartBegin
    \/ StopStopped
    \/ \E i \in Slots : OrphanFetch(i)
    \/ \E i \in Slots, ok \in BOOLEAN : OrphanSaveDone(i, ok)

SpecLifecycle == Init /\ [][NextLifecycle]_vars

Next ==
    \/ Tick
    \/ \E ok \in BOOLEAN : ProducerStart(ok)
    \/ \E body \in BuyBodies, item \in RANDOM_ITEMS : BuyGenerate(body, item)
    \/ \E ev \in BagToSet(pending), bo \in BuyOutcomes : BuySend(ev, bo)
    \/ ConsumerStep

Spec == Init /\ [][Next]_vars

(* ------------------------------ delivery ----------------------------- *)
\* The topic between the producer of the web server, which publishes valid
\* events, any other producer, which may append bytes that are not JSON,
\* and the consumer service
NextDelivery ==
    \/ \E ok \in BOOLEAN : ProducerStart(ok)
    \/ \E bo \in BuyOutcomes : SendMessage(UserA, ValidValue, bo)
    \/ TopicPublish(GarbageBytes)
    \/ ConsumerStep

SpecDelivery == Init /\ [][NextDelivery]_vars

\* The event loop runs the task of the poll loop whenever it can go on: a
\* record that is available is fetched, and an insert_one that was awaited
\* returns or raises
SpecDeliveryFair ==
    SpecDelivery /\ WF_vars(LoopFetch) /\ WF_vars(\E ok \in BOOLEAN : LoopSaveDone(ok))

\* The pipeline under any sequence of start() and stop() calls of the
\* consumer: acknowledged events are delivered, saved, committed, and
\* delivered again to whoever joins the group before the commit
NextRedelivery ==
    \/ \E ok \in BOOLEAN : ProducerStart(ok)
    \/ \E bo \in BuyOutcomes : SendMessage(UserA, ValidValue, bo)
    \/ ConsumerStep
    \/ ConsumerRestartBegin
    \/ StopStopped
    \/ \E i \in Slots : OrphanFetch(i)
    \/ \E i \in Slots, ok \in BOOLEAN : OrphanSaveDone(i, ok)

SpecRedelivery == Init /\ [][NextRedelivery]_vars

(* ----------------------- close while publishing ---------------------- *)
\* send_message and stop() taken one await at a time. A send_message call
\* is an entry of publ: "flying" from the return of producer.send() to the
\* outcome of its future, then "receipt" or "failed"; "refused" when the
\* readiness check raised. pre marks the sends that were flying when stop()
\* called flush(). close_pc: "idle", "flushing" (in await producer.flush()),
\* "stopping" (in await producer.stop()), "returned".

\* What producer.send() raises once the AIOKafkaProducer is being stopped
ProducerClosed == [cls |-> "ProducerClosed", msg |-> "Producer is closed"]

Flying == {i \in DOMAIN publ : publ[i].status = "flying"}

Call(key, value, status, offset) ==
    [key |-> key, value |-> value, status |-> status, offset |-> offset, pre |-> FALSE]

\* send_message up to its second await: the readiness check, then
\* producer.send(), which hands the message to the client or raises
\* ProducerClosed
PublishBegin(key, value) ==
    /\ Len(publ) < MaxPublish
    /\ IF ~is_connected(prod)
       THEN /\ publ' = Append(publ, Call(key, value, "refused", 0))
            /\ ret' = Ret("send_message", NotConnectedError, NoError,
                          <<[ok |-> FALSE, offset |-> 0]>>, <<[key |-> key, value |-> value]>>)
            /\ UNCHANGED <<prod, sends>>
       ELSE IF prod.producer # "open"
       THEN LET r == send_message_try(prod, log, sends, key, value, None,
                                      [stage |-> "submit", err |-> ProducerClosed, landed |-> FALSE],
                                      clock)
            IN /\ prod' = r.prod
               /\ sends' = r.sends
               /\ publ' = Append(publ, Call(key, value, "failed", 0))
               /\ ret' = Ret("send_message", r.raised, ProducerClosed,
                             <<[ok |-> FALSE, offset |-> 0]>>, <<[key |-> key, value |-> value]>>)
       ELSE /\ Len(log) + Cardinality(Flying) < MaxLog
            /\ publ' = Append(publ, Call(key, value, "flying", 0))
            /\ sends' = sends + 1
            /\ UNCHANGED <<prod, ret>>
    /\ UNCHANGED <<cons, log, position, inflight, fate, db, pending, stop_pc, clock, grp,
                   failed_saves, close_pc, leaked>>

\* send_message from "await future" on: the client, as long as it lives,
\* ends the future with the metadata or with an error (at the latest when
\* request_timeout_ms has passed); the metrics, return or raise
PublishEnd(i, bo) ==
    /\ i \in Flying
    /\ prod.producer \in {"open", "closing"}
    /\ LET r == send_message_try(prod, log, sends, publ[i].key, publ[i].value, None, bo, clock)
       IN /\ prod' = r.prod
          /\ log' = r.log
          /\ publ' = [publ EXCEPT ![i].status = IF r.raised = NoError THEN "receipt" ELSE "failed",
                                  ![i].offset = r.offset]
          /\ ret' = Ret("send_message", r.raised, bo.err,
                        <<[ok |-> r.raised = NoError, offset |-> r.offset]>>,
                        <<[key |-> publ[i].key, value |-> publ[i].value]>>)
    /\ UNCHANGED <<cons, sends, position, inflight, fate, db, pending, stop_pc, clock, grp,
                   failed_saves, close_pc, leaked>>

\* stop() is called: without a producer object it clears the flag and
\* returns, with one it awaits producer.flush()
CloseBegin ==
    /\ close_pc \in {"idle", "returned"}
    /\ IF prod.producer = None
       THEN /\ prod' = stop(prod, TRUE)
            /\ close_pc' = "returned"
            /\ ret' = Ret("stop", NoError, NoError, <<>>, <<>>)
            /\ UNCHANGED publ
       ELSE /\ close_pc' = "flushing"
            /\ publ' = [i \in DOMAIN publ |-> [publ[i] EXCEPT !.pre = (i \in Flying)]]
            /\ UNCHANGED <<prod, ret>>
    /\ UNCHANGED <<cons, log, sends, position, inflight, fate, db, pending, stop_pc, clock, grp,
                   failed_saves, leaked>>

\* producer.flush() returns once the sends that were flying when it was
\* called have ended, and stop() goes on to await producer.stop(), which
\* closes the client to new sends; or flush() raises, and stop() logs, clears
\* the flag and returns
CloseFlushed(ok) ==
    /\ close_pc = "flushing"
    /\ IF ok
       THEN /\ \A i \in Flying : ~publ[i].pre
            /\ prod' = [prod EXCEPT !.producer = IF @ = "open" THEN "closing" ELSE @]
            /\ close_pc' = "stopping"
            /\ UNCHANGED ret
       ELSE /\ prod' = stop(prod, FALSE)
            /\ close_pc' = "returned"
            /\ ret' = Ret("stop", NoError, NoError, <<>>, <<>>)
    /\ UNCHANGED <<cons, log, sends, position, inflight, fate, db, pending, stop_pc, clock, grp,
                   failed_saves, publ, leaked>>

\* A producer.stop() that returned without waiting for the sends still
\* flying would be CloseStopped_abandoning.
CloseStopped_abandoning ==
    /\ close_pc = "stopping"
    /\ prod' = stop(prod, TRUE)
    /\ close_pc' = "returned"
    /\ ret' = Ret("stop", NoError, NoError, <<>>, <<>>)
    /\ UNCHANGED <<cons, log, sends, position, inflight, fate, db, pending, stop_pc, clock, grp,
                   failed_saves, publ, leaked>>

\* producer.stop() returns, having flushed what was still flying; stop()
\* clears the flag and returns
CloseStopped ==
    /\ close_pc = "stopping"
    /\ Flying = {}
    /\ prod' = stop(prod, TRUE)
    /\ close_pc' = "returned"
    /\ ret' = Ret("stop", NoError, NoError, <<>>, <<>>)
    /\ UNCHANGED <<cons, log, sends, position, inflight, fate, db, pending, stop_pc, clock, grp,
                   failed_saves, publ, leaked>>

\* What the future of a send ends with
FutureOutcomes == {bo \in BrokerOutcomes : bo.stage # "submit" /\ bo.err.cls # "RuntimeError"}

\* The web server's producer from startup to shutdown: started once, then
\* publishing, and closed at any moment
NextClose ==
    \/ \E ok \in BOOLEAN : prod.producer = None /\ close_pc = "idle" /\ ProducerStart(ok)
    \/ PublishBegin(UserA, ValidValue)
    \/ \E i \in 1..MaxPublish, bo \in FutureOutcomes : PublishEnd(i, bo)
    \/ CloseBegin
    \/ \E ok \in BOOLEAN : CloseFlushed(ok)
    \/ CloseStopped

SpecClose == Init /\ [][NextClose]_vars

\* The broker client ends every future: with the acknowledgment, an error,
\* or the timeout of request_timeout_ms
SpecCloseFair ==
    SpecClose /\ WF_vars(\E i \in 1..MaxPublish, bo \in FutureOutcomes : PublishEnd(i, bo))

(* ------------------------------ probes ------------------------------- *)
\* A caller (the health endpoint) evaluates KafkaProducer.is_connected()
IsConnected ==
    /\ ret' = Ret("is_connected", NoError, NoError, <<is_connected(prod)>>, <<>>)
    /\ UNCHANGED <<prod, cons, log, sends, position, inflight, fate, db, pending, stop_pc, clock,
                   grp, failed_saves, pub>>

\* An is_running() that marked a consumer stopped once it found the task
\* finished would be IsRunning_reaping.
IsRunning_reaping ==
    /\ ret' = Ret("is_running", NoError, NoError, <<is_running(cons)>>, <<>>)
    /\ cons' = IF cons.consumer_task = "done" THEN [cons EXCEPT !.consumer = None] ELSE cons
    /\ UNCHANGED <<prod, log, sends, position, inflight, fate, db, pending, stop_pc, clock,
                   grp, failed_saves, pub>>

\* A caller (the health endpoint) evaluates KafkaConsumer.is_running()
IsRunning ==
    /\ ret' = Ret("is_running", NoError, NoError, <<is_running(cons)>>, <<>>)
    /\ UNCHANGED <<prod, cons, log, sends, position, inflight, fate, db, pending, stop_pc, clock,
                   grp, failed_saves, pub>>

\* Producer and consumer over one topic, probed at any moment
NextProbes ==
    \/ \E ok \in BOOLEAN : ProducerStart(ok)
    \/ \E drained \in BOOLEAN : ProducerStop(drained)
    \/ \E bo \in BuyOutcomes : SendMessage(UserA, ValidValue, bo)
    \/ ConsumerStep
    \/ StopStopped
    \/ IsConnected
    \/ IsRunning

SpecProbes == Init /\ [][NextProbes]_vars

\* The publishing side alone: the producer of the web server and POST /buy
NextBuy ==
    \/ Tick
    \/ \E ok \in BOOLEAN : ProducerStart(ok)
    \/ \E body \in BuyBodies, item \in RANDOM_ITEMS : BuyGenerate(body, item)
    \/ \E ev \in BagToSet(pending), bo \in BuyOutcomes : BuySend(ev, bo)

SpecBuy == Init /\ [][NextBuy]_vars

(* ------------------------------- query ------------------------------- *)
\* The orders of the documents idx a sort on timestamp_dt may return:
\* dir = -1 newest first, dir = 1 oldest first; equal keys in any order
SortedBy(idx, dir) ==
    {r \in [1..Cardinality(idx) -> idx] :
        /\ \A i, j \in DOMAIN r : i # j => r[i] # r[j]
        /\ \A i, j \in DOMAIN r :
              i < j => dir * db[r[i]].timestamp_dt <= dir * db[r[j]].timestamp_dt}

\* A query that sorted oldest first would be get_user_purchases_ascending.
get_user_purchases_ascending(user_id) ==
    {[i \in DOMAIN r |-> db[r[i]]] : r \in SortedBy({i \in DOMAIN db : db[i].user_id = user_id}, 1)}

\* DatabaseManager.get_user_purchases(user_id): find({"user_id": user_id})
\* .sort("timestamp_dt", -1); the set of lists the call may return
get_user_purchases(user_id) ==
    {[i \in DOMAIN r |-> db[r[i]]] : r \in SortedBy({i \in DOMAIN db : db[i].user_id = user_id}, 0 - 1)}

Users == {UserA, UserB}

(* ------------------------------ history ------------------------------ *)
\* sum(p["price"] for p in purchases)
RECURSIVE SumPrices(_)
SumPrices(purchases) ==
    IF purchases = <<>> THEN 0 ELSE Head(purchases).price + SumPrices(Tail(purchases))

\* Tenths of a cent in one cent
Cent == 10

\* round(total_spent, 2): the amounts in whole cents the call may return. A
\* sum lying exactly halfway between two cents goes either way, depending on
\* the binary float that holds it.
round2(m) ==
    LET down == (m \div Cent) * Cent
        r == m % Cent
    IN IF r = 0 THEN {m}
       ELSE IF 2 * r < Cent THEN {down}
       ELSE IF 2 * r > Cent THEN {down + Cent}
       ELSE {down, down + Cent}

\* PurchaseResponse(**purchase): the five fields and _id; timestamp_dt is
\* not a field of the model and is left out
PurchaseResponse(purchase) ==
    [_id |-> purchase._id, username |-> purchase.username, user_id |-> purchase.user_id,
     item_name |-> purchase.item_name, price |-> purchase.price,
     timestamp |-> purchase.timestamp]

\* GET /purchases/{user_id} of the management API, the query having
\* returned purchases (or raised, db_ok = FALSE) and round() having
\* returned total_spent: the status and the JSON body of the response
api_get_user_purchases(user_id, purchases, total_spent, db_ok) ==
    IF ~db_ok THEN [status |-> "500", body |-> <<>>]
    ELSE IF purchases = <<>> THEN [status |-> "404", body |-> <<>>]
    ELSE [status |-> "200",
          body |-> <<[user_id |-> user_id,
                      username |-> purchases[1].username,
                      total_purchases |-> Len(purchases),
                      total_spent |-> total_spent,
                      purchases |-> [i \in DOMAIN purchases |-> PurchaseResponse(purchases[i])]]>>]

\* Exceptions http_client.get may raise
HttpxErrors == {"ConnectError", "TimeoutException", "ReadError"}

\* Payloads of a 200 response that are no purchases response: bytes that
\* are not JSON, and a JSON object without the aggregate members
BrokenPayloads == {"not_json", "incomplete"}

\* What one request of the gateway meets: the API answers, the API's query
\* of the collection raises, the transport raises, or a 200 arrives with a
\* payload that is no purchases response
UpstreamOutcomes == {"answered", "db_error"} \cup HttpxErrors \cup BrokenPayloads

\* The user_id the management API reads from the path of the request
\* f"/purchases/{user_id}": the text is put into the URL as it is, and what
\* follows a "?" is the query string of the URL, not part of the path
RECURSIVE url_path_param(_)
url_path_param(user_id) ==
    IF user_id = <<>> \/ Head(user_id) = "?" THEN <<>>
    ELSE <<Head(user_id)>> \o url_path_param(Tail(user_id))

\* UserPurchasesResponse(**data) in the gateway: the same five members, each
\* purchase read through the gateway's own Purchase model (id aliased _id)
UserPurchasesResponse(data) ==
    [user_id |-> data.user_id, username |-> data.username,
     total_purchases |-> data.total_purchases, total_spent |-> data.total_spent,
     purchases |-> [i \in DOMAIN data.purchases |-> PurchaseResponse(data.purchases[i])]]

\* response.json(), data['total_purchases'] and UserPurchasesResponse(**data)
\* all succeed on the payload: it is a JSON object with the required members
PayloadOk(body) ==
    /\ body # <<>>
    /\ {"user_id", "username", "total_purchases", "total_spent", "purchases"} \subseteq DOMAIN body[1]

\* What get_all_user_purchases answers to reply, the outcome of its request:
\* exc the exception raised by http_client.get (None if it returned), else
\* status and body of the response. A gateway that handed the upstream
\* status on unchanged would be get_all_user_purchases_relaying.
get_all_user_purchases_relaying(reply) ==
    IF reply.exc # None
    THEN [raised |-> HttpError(IF reply.exc \in {"TimeoutException", "ConnectError"} THEN "503" ELSE "500"),
          body |-> <<>>]
    ELSE IF reply.status # "200" THEN [raised |-> HttpError(reply.status), body |-> <<>>]
    ELSE IF ~PayloadOk(reply.body) THEN [raised |-> HttpError("500"), body |-> <<>>]
    ELSE [raised |-> NoError, body |-> <<UserPurchasesResponse(reply.body[1])>>]

\* A gateway that answered 503 to whatever went wrong with its request would
\* be get_all_user_purchases_masking.
get_all_user_purchases_masking(reply) ==
    IF reply.exc # None THEN [raised |-> HttpError("503"), body |-> <<>>]
    ELSE IF reply.status = "404" THEN [raised |-> HttpError("404"), body |-> <<>>]
    ELSE IF reply.status # "200" THEN [raised |-> HttpError("503"), body |-> <<>>]
    ELSE IF ~PayloadOk(reply.body) THEN [raised |-> HttpError("503"), body |-> <<>>]
    ELSE [raised |-> NoError, body |-> <<UserPurchasesResponse(reply.body[1])>>]

get_all_user_purchases(reply) ==
    IF reply.exc = "TimeoutException" THEN [raised |-> HttpError("503"), body |-> <<>>]
    ELSE IF reply.exc = "ConnectError" THEN [raised |-> HttpError("503"), body |-> <<>>]
    ELSE IF reply.exc # None THEN [raised |-> HttpError("500"), body |-> <<>>]
    ELSE IF reply.status = "404" THEN [raised |-> HttpError("404"), body |-> <<>>]
    ELSE IF reply.status # "200" THEN [raised |-> HttpError("503"), body |-> <<>>]
    ELSE IF ~PayloadOk(reply.body) THEN [raised |-> HttpError("500"), body |-> <<>>]
    ELSE [raised |-> NoError, body |-> <<UserPurchasesResponse(reply.body[1])>>]

\* GET /getAllUserBuys/{user_id}: one request to the management API, which
\* queries the collection, and the mapping of its outcome. ret.results holds
\* the requests made, each with the outcome it met; ret.batch the body
\* returned to the caller.
GetHistory(user_id, up) ==
    LET w == url_path_param(user_id)
    IN \E purchases \in get_user_purchases(w) :
          \E total_spent \in round2(SumPrices(purchases)) :
             LET answer == api_get_user_purchases(w, purchases, total_spent, up # "db_error")
                 reply == IF up \in HttpxErrors
                          THEN [exc |-> up, status |-> None, body |-> <<>>]
                          ELSE IF up = "not_json"
                          THEN [exc |-> None, status |-> "200", body |-> <<>>]
                          ELSE IF up = "incomplete"
                          THEN [exc |-> None, status |-> "200", body |-> <<[user_id |-> w]>>]
                          ELSE [exc |-> None, status |-> answer.status, body |-> answer.body]
                 out == get_all_user_purchases(reply)
             IN ret' = Ret("get_all_user_purchases", out.raised,
                           IF up \in HttpxErrors THEN [cls |-> up, msg |-> ""] ELSE NoError,
                           <<[user_id |-> user_id, path |-> w, up |-> up, reply |-> reply]>>,
                           out.body)
    /\ UNCHANGED <<prod, cons, log, sends, position, inflight, fate, db, pending, stop_pc, clock,
                   grp, failed_saves, pub>>

\* A user id with a character that ends the path of a URL
UserMarked == <<"u", "?">>

\* The user ids a history is asked for
QueryIds == {UserA, UserB, UserMarked}

\* Events published for the history: two of one user, at 10.00 and then at
\* 20.00; one priced below a cent; one of the marked user; one the consumer
\* rejects
OldValue == PyDict(EventDict(<<"a">>, UserA, 10000, isoformat_Z(0)))
NewValue == PyDict(EventDict(<<"b">>, UserA, 20000, isoformat_Z(1)))
SubCentValue == PyDict(EventDict(<<"a">>, UserB, 4, isoformat_Z(0)))
MarkedValue == PyDict(EventDict(<<"a">>, UserMarked, 10000, isoformat_Z(0)))
QueryValues == {OldValue, NewValue, SubCentValue, MarkedValue, ZeroPriceValue}

\* What a send of these events meets
QueryOutcomes ==
    {bo \in BrokerOutcomes : bo.stage = "ack" \/ (bo.err.cls = "KafkaError" /\ bo.stage = "future")}

\* The whole pipeline with its history endpoint: events are published,
\* consumed and persisted, and histories are asked for at any moment
NextQuery ==
    \/ \E ok \in BOOLEAN : ProducerStart(ok)
    \/ \E v \in QueryValues, bo \in QueryOutcomes : SendMessage(v.d["user_id"].s, v, bo)
    \/ ConsumerStartBegin
    \/ \E ok \in BOOLEAN : ConsumerStart(ok)
    \/ LoopFetch
    \/ \E ok \in BOOLEAN : LoopSaveDone(ok)
    \/ \E u \in QueryIds, up \in UpstreamOutcomes : GetHistory(u, up)

SpecQuery == Init /\ [][NextQuery]_vars

(* ============================== claims =============================== *)
\* The event the producer handed to the broker for the record at offset o
EventAt(o) == log[o + 1].event

ValidEvent(e) == e.py = "dict" /\ ModelFieldsOk(e.d)

SameFields(doc, e) ==
    /\ doc.username = e.d["username"].s
    /\ doc.user_id = e.d["user_id"].s
    /\ doc.item_name = e.d["item_name"].s
    /\ doc.price = e.d["price"].n
    /\ doc.timestamp = e.d["timestamp"].s

\* C1: round-trip fidelity. Every valid event (five fields, price > 0) whose
\* publish the broker acknowledged and which a running consumer has taken is
\* accepted by the consumer's validation, and once its save has succeeded
\* the collection holds exactly one document for it, whose username,
\* user_id, item_name, price and timestamp equal the event's.
C1_RoundTrip ==
    \A o \in DOMAIN fate :
        (log[o].acked /\ ValidEvent(log[o].event)) =>
            /\ fate[o] \notin {"invalid", "undecodable"}
            /\ fate[o] = "persisted" =>
                  /\ Cardinality({i \in DOMAIN db : db[i].offset = o - 1}) = 1
                  /\ \A i \in DOMAIN db : db[i].offset = o - 1 => SameFields(db[i], log[o].event)

\* C1 witness: an acknowledged valid event has been persisted
C1_Witness ==
    \E o \in DOMAIN fate :
        log[o].acked /\ ValidEvent(log[o].event) /\ fate[o] = "persisted"

\* Creation time of the event behind a stored document, as the producer
\* formatted it
CreatedAt(doc, t) == EventAt(doc.offset).d["timestamp"].s = isoformat_Z(t)

\* C2 (as claimed): ordering by key. Of two persisted events of one user,
\* the later-published one (higher offset) is listed first by every result
\* get_user_purchases may return.
C2_PublishOrder ==
    \A u \in Users : \A r \in get_user_purchases(u) :
        \A i, j \in DOMAIN r : i < j => r[i].offset > r[j].offset

\* C2 (amended): of two persisted events of one user that the buy requests
\* created at different times, the one created later is listed first by
\* every result get_user_purchases may return, whatever order the two were
\* published in.
C2_TimestampOrder ==
    \A u \in Users : \A r \in get_user_purchases(u) :
        \A i, j \in DOMAIN r : \A ti, tj \in 0..MaxClock :
            (i # j /\ CreatedAt(r[i], ti) /\ CreatedAt(r[j], tj) /\ ti > tj) => i < j

\* C2 witness: two persisted events of one user, the later-published one
\* created earlier
C2_Witness ==
    \E a, b \in DOMAIN db :
        /\ db[a].user_id = db[b].user_id
        /\ db[a].offset < db[b].offset
        /\ db[a].timestamp_dt > db[b].timestamp_dt
        /\ log[db[a].offset + 1].acked /\ log[db[b].offset + 1].acked

\* The poll loop takes the next record of the partition in this step
Fetches == position' = position + 1

\* The record the loop is about to take
NextRecord == log[position + 1]

\* Its payload cannot be deserialized into a well-formed record: it is not
\* JSON, or it is JSON but no object
Malformed(b) == ~json_loads(b).ok \/ json_loads(b).v.py # "dict"

\* C3 (as claimed): consumer counters. Whenever the loop is between two
\* records, every record it has taken is counted exactly once, as processed
\* or as failed, and the processed counter equals the number of documents
\* persisted.
C3_Counters ==
    (cons.consumer_task # None /\ inflight = <<>>) =>
        /\ cons.messages_processed + cons.messages_failed = position
        /\ cons.messages_processed = Len(db)

\* C4 (as claimed): a malformed payload is skipped, not fatal. When the
\* running loop takes a record whose payload is malformed, the failed
\* counter grows by one, nothing is saved and the loop stays alive, ready
\* for the next record.
C4_MalformedSkipped ==
    [][(Fetches /\ cons.running /\ Malformed(NextRecord.value)) =>
          /\ cons'.messages_failed = cons.messages_failed + 1
          /\ cons'.messages_processed = cons.messages_processed
          /\ db' = db /\ inflight' = <<>>
          /\ cons'.consumer_task = "alive"]_vars

\* The save of the record in flight fails in this step: insert_one raises,
\* or save_purchase raises before it
SaveFails ==
    \/ /\ inflight # <<>> /\ inflight' = <<>>
       /\ fate'[position] = "save_failed"
    \/ /\ Fetches
       /\ fate'[position'] = "bad_timestamp"

\* C5: a persistence failure is skipped, not fatal. The step in which the
\* save of a record fails adds one to the failed counter, leaves the
\* processed counter and the collection unchanged and leaves the loop alive
\* with no record in flight, so that it takes the next record; and no
\* document ever exists for a record whose save failed.
C5_SaveFailureSkipped ==
    /\ [][SaveFails =>
            /\ cons'.messages_failed = cons.messages_failed + 1
            /\ cons'.messages_processed = cons.messages_processed
            /\ db' = db
            /\ cons'.consumer_task = "alive" /\ cons'.consumer = "open"
            /\ inflight' = <<>>]_vars
    /\ [](\A o \in DOMAIN fate :
            fate[o] \in {"save_failed", "bad_timestamp"} =>
                /\ \A i \in DOMAIN db : db[i].offset # o - 1
                /\ (o = position /\ position < Len(log) /\ cons.consumer_task = "alive")
                      => ENABLED LoopFetch)

\* C5 witness: a record whose save failed, and a later record persisted
C5_Witness ==
    \E o1, o2 \in DOMAIN fate :
        o1 < o2 /\ fate[o1] = "save_failed" /\ fate[o2] = "persisted"
        /\ cons.messages_failed = 1 /\ cons.messages_processed = 1

\* C6 (as claimed): the consumer persists only valid events. Every stored
\* document has price > 0 and a username and user_id that are non-empty
\* after trimming, and a record violating this is counted as failed and
\* never saved.
C6_OnlyValidPersisted ==
    /\ \A i \in DOMAIN db :
          /\ db[i].price > 0
          /\ strip(db[i].username) # <<>>
          /\ strip(db[i].user_id) # <<>>
    /\ \A o \in DOMAIN fate :
          LET v == json_loads(log[o].value)
          IN (v.ok /\ v.v.py = "dict" /\ ModelFieldsOk(v.v.d)
                /\ (strip(v.v.d["username"].s) = <<>> \/ strip(v.v.d["user_id"].s) = <<>>))
             => fate[o] \in {"invalid", "dropped"}

(* --------------------------- producer claims -------------------------- *)
\* This step is a call of op on the producer
Calls(op) == ret'.seq # ret.seq /\ ret'.op = op

\* KafkaProducer.is_connected() is false
NotReady == ~(prod.connected /\ prod.producer # None)

\* C7: publish while isReady() is false fails with the not-connected error
\* and issues no send to the broker (also after a failed connect and after
\* close, when a producer handle exists).
C7_NotConnected ==
    [][(Calls("send_message") /\ NotReady) =>
          /\ ret'.raised = NotConnectedError
          /\ sends' = sends
          /\ log' = log]_vars

\* C7 witness: a publish refused on a producer whose handle exists (after a
\* failed connect or after close)
C7_Witness ==
    /\ ret.op = "send_message" /\ ret.raised = NotConnectedError
    /\ prod.producer # None /\ ~prod.connected /\ prod.messages_sent > 0

Failed(r) == r.raised # NoError

\* C8 (as claimed): producer counters. Every failed publish adds one to
\* messages_failed and leaves messages_sent; every successful publish adds
\* one to messages_sent and leaves messages_failed.
C8_EveryFailureCounted ==
    [][Calls("send_message") =>
          IF Failed(ret')
          THEN /\ prod'.messages_failed = prod.messages_failed + 1
               /\ prod'.messages_sent = prod.messages_sent
          ELSE /\ prod'.messages_sent = prod.messages_sent + 1
               /\ prod'.messages_failed = prod.messages_failed]_vars

\* C8 (amended): a publish that fails after the readiness check (broker
\* timeout, other broker error, unexpected exception) adds one to
\* messages_failed and leaves messages_sent; a publish refused as not
\* connected leaves both counters; a successful publish adds one to
\* messages_sent and leaves messages_failed.
C8_Counters ==
    [][Calls("send_message") =>
          IF ret'.raised = NotConnectedError
          THEN /\ prod'.messages_failed = prod.messages_failed
               /\ prod'.messages_sent = prod.messages_sent
          ELSE IF Failed(ret')
          THEN /\ prod'.messages_failed = prod.messages_failed + 1
               /\ prod'.messages_sent = prod.messages_sent
          ELSE /\ prod'.messages_sent = prod.messages_sent + 1
               /\ prod'.messages_failed = prod.messages_failed]_vars

\* C8 witness: after a publish that failed at the broker and was counted, a
\* publish is refused as not connected and is not counted
C8_Witness ==
    /\ ret.op = "send_message" /\ ret.raised = NotConnectedError
    /\ prod.messages_sent = 0 /\ prod.messages_failed = 1

\* C9 (as claimed): send_batch on a ready producer returns, for every
\* pattern of per-message failures, a list with one outcome per input, in
\* input order: no exception, and each receipt is the offset of the record
\* holding that input.
C9_BatchOutcomes ==
    [][(Calls("send_batch") /\ ~NotReady) =>
          /\ ret'.raised = NoError
          /\ Len(ret'.results) = Len(ret'.batch)
          /\ \A i \in DOMAIN ret'.results :
                ret'.results[i].ok =>
                    /\ ret'.results[i].offset < Len(log')
                    /\ log'[ret'.results[i].offset + 1].event = ret'.batch[i].value]_vars

\* The classes of error a caller of send_message can receive for a broker
\* error that is no timeout
OtherErrorClasses ==
    {send_message_raises(e).cls : e \in {x \in BrokerErrors : ~IsKafkaTimeoutError(x)}}

\* C10 (as claimed): a broker timeout reaches the caller as an error of a
\* kind no other broker error is reported as.
C10_TimeoutDistinct ==
    [][(Calls("send_message") /\ IsKafkaTimeoutError(ret'.cause)) =>
          ret'.raised.cls \notin OtherErrorClasses]_vars

\* C10 (amended): every broker failure of a publish reaches the caller as a
\* KafkaError: a timeout as a plain KafkaError "Timeout sending message"
\* (never as KafkaTimeoutError), another KafkaError unchanged, any other
\* exception as a plain KafkaError "Failed to send message".
C10_ErrorMapping ==
    [][(Calls("send_message") /\ ret'.cause # NoError) =>
          /\ IsKafkaError(ret'.raised) /\ ~IsKafkaTimeoutError(ret'.raised)
          /\ IsKafkaTimeoutError(ret'.cause) =>
                ret'.raised = [cls |-> "KafkaError", msg |-> "Timeout sending message"]
          /\ (IsKafkaError(ret'.cause) /\ ~IsKafkaTimeoutError(ret'.cause)) =>
                ret'.raised = ret'.cause
          /\ ~IsKafkaError(ret'.cause) =>
                ret'.raised = [cls |-> "KafkaError", msg |-> "Failed to send message"]]_vars

\* C10 witness: a publish that the broker timed out
C10_Witness ==
    /\ ret.op = "send_message" /\ IsKafkaTimeoutError(ret.cause)
    /\ ret.raised.cls = "KafkaError"

(* ------------------------ producer life cycle ------------------------- *)
\* C11: KafkaProducer.start() against an unreachable broker returns by
\* raising a Kafka connection error and leaves the producer disconnected
\* (connected flag false, is_connected() false), whatever the producer's
\* state was before the call.
C11_StartFailure ==
    [][(Calls("start") /\ Failed(ret')) =>
          /\ ret'.raised = KafkaConnectionError /\ IsKafkaError(ret'.raised)
          /\ ~prod'.connected /\ ~is_connected(prod')
          /\ prod'.producer = "closed"
          /\ prod'.messages_sent = prod.messages_sent
          /\ prod'.messages_failed = prod.messages_failed]_vars

\* C11 witness: a start has failed on a producer that had been connected
\* and had published
C11_Witness ==
    /\ ret.op = "start" /\ Failed(ret)
    /\ prod.messages_sent > 0 /\ ~is_connected(prod)

C13_NeverHalfOpen ==
    [][Calls("stop") =>
          /\ ~is_connected(prod')
          /\ prod'.producer # "open"]_vars

\* C14: partition-key discipline. Every record the purchase path has
\* published carries the bytes of its event's user_id as key and was sent
\* without explicit partition, and any two published events with the same
\* user_id are on the same partition.
C14_KeyDiscipline ==
    /\ \A o \in DOMAIN log :
          /\ log[o].key = [has |-> TRUE, bytes |-> log[o].event.d["user_id"].s]
          /\ ~log[o].explicit
          /\ log[o].partition \in Partitions
    /\ \A o1, o2 \in DOMAIN log :
          log[o1].event.d["user_id"] = log[o2].event.d["user_id"] =>
              log[o1].partition = log[o2].partition

\* C14 witness: two acknowledged events of one user, on the partition of
\* that user's key
C14_Witness ==
    /\ Len(log) = 2
    /\ log[1].event.d["user_id"].s = UserB /\ log[2].event.d["user_id"].s = UserB
    /\ log[1].acked /\ log[2].acked
    /\ log[1].partition = "1" /\ log[2].partition = "1"

(* ------------------------ consumer life cycle ------------------------- *)
\* The poll loops that are alive, and the broker subscriptions that are open
AliveLoops ==
    (IF cons.consumer_task = "alive" THEN 1 ELSE 0)
    + Cardinality({i \in Slots : orphans[i].task = "alive"})

OpenSubscriptions == Cardinality(Members(cons, orphans))

\* C15: KafkaConsumer.start() opens the subscription before it spawns the
\* poll loop. While start() awaits the subscription no loop runs on the new
\* consumer object; a loop that is alive iterates an open subscription; the
\* step in which start() returns successfully leaves is_running() true with
\* the loop spawned on the open subscription; a start() that fails spawns
\* nothing.
C15_StartOrdering ==
    /\ [](cons.consumer = "starting" => (cons.consumer_task # "alive" \/ TaskHandle # 0))
    /\ [](cons.consumer_task = "alive" => HandleOpen(cons, orphans, TaskHandle))
    /\ [][(Calls("consumer_start") /\ ~Failed(ret')) =>
             /\ cons.consumer = "starting"
             /\ cons'.consumer = "open" /\ cons'.running /\ is_running(cons')
             /\ cons'.consumer_task = "alive"]_vars
    /\ [][(Calls("consumer_start") /\ Failed(ret')) =>
             cons'.consumer_task = cons.consumer_task]_vars

\* C15 witness: the first start() has returned successfully
C15_Witness ==
    /\ ret.op = "consumer_start" /\ ~Failed(ret)
    /\ starts = 1 /\ is_running(cons) /\ cons.consumer_task = "alive" /\ cons.consumer = "open"

\* C16 (as claimed): KafkaConsumer.start() against an unreachable broker
\* raises a connection error and leaves the consumer stopped: is_running()
\* is false and no poll loop has been spawned.
C16_StartFailure ==
    [][(Calls("consumer_start") /\ Failed(ret')) =>
          /\ IsKafkaError(ret'.raised)
          /\ ~is_running(cons')
          /\ cons'.consumer_task = cons.consumer_task
          /\ AliveLoops' = 0]_vars

\* C17 (as claimed): at most one poll loop and one broker subscription of a
\* consumer instance are alive at a time, after any sequence of start() and
\* stop() calls.
C17_OneLoop ==
    AliveLoops <= 1 /\ OpenSubscriptions <= 1

\* No stop() is in progress and the running flag is false
Stopped == stop_pc = "idle" /\ ~cons.running

\* start() has left no other loop and no other subscription behind
NoOtherLoop ==
    \A i \in Slots : orphans[i].consumer = "closed" /\ orphans[i].task \in {"none", "thread"}

\* C18 (as claimed): when KafkaConsumer.stop() returns, is_running() is
\* false, no poll loop is alive and the subscription is closed; and while
\* the consumer is stopped no record is persisted. Stated for a consumer on
\* which start() has not been called twice in a row, so that the only loop
\* is the one stop() knows.
C18_StopEndsStopped ==
    /\ [][(Calls("consumer_stop") /\ NoOtherLoop) =>
             /\ ~is_running(cons')
             /\ AliveLoops' = 0
             /\ OpenSubscriptions' = 0]_vars
    /\ [][(Stopped /\ NoOtherLoop) => db' = db]_vars

\* C19 (as claimed): KafkaConsumer.stop() on a consumer that is already
\* stopped changes no consumer state and calls nothing on the broker
\* connection.
C19_StopNoOp ==
    [][(Calls("consumer_stop") /\ Stopped /\ (cons.consumer = None \/ cons.consumer_task = "done")) =>
          /\ cons' = cons
          /\ \A i \in DOMAIN ret'.results : ret'.results[i].call # "consumer.stop"]_vars

\* C19 (amended): KafkaConsumer.stop() on a consumer that is already
\* stopped changes no state of the consumer, of the group or of the
\* collection; on a consumer that was never started it awaits nothing, and
\* when a task or a consumer object exists (start failed, or stopped before)
\* it awaits the finished task and calls stop() once more on the consumer
\* object, which stays closed.
C19_StopNoEffect ==
    [][(Calls("consumer_stop") /\ Stopped) =>
          /\ cons' = cons
          /\ <<committed, orphans, owner, position, db, inflight, fate>>'
                = <<committed, orphans, owner, position, db, inflight, fate>>
          /\ ret'.raised = NoError
          /\ (cons.consumer = None /\ cons.consumer_task = None) => ret'.results = <<>>
          /\ cons.consumer # None =>
                /\ cons'.consumer = "closed"
                /\ \E i \in DOMAIN ret'.results : ret'.results[i].call = "consumer.stop"]_vars

\* C19 witness: stop() has returned again on a consumer that had processed a
\* record and was stopped
C19_Witness ==
    /\ ret.op = "consumer_stop" /\ Stopped
    /\ cons.consumer = "closed" /\ cons.consumer_task = "done"
    /\ cons.messages_processed > 0
    /\ Len(ret.results) = 2

(* ------------------------- offsets and saves -------------------------- *)
\* No document stored for the record with offset o (counted from 1)
NoDoc(o) == \A i \in DOMAIN db : db[i].offset # o - 1

\* A save of the record with offset o is being awaited, by a loop or by the
\* thread of a cancelled one
InFlightOf(o) ==
    \/ inflight # <<>> /\ inflight[1].offset = o - 1
    \/ \E i \in Slots : orphans[i].inflight # <<>> /\ orphans[i].inflight[1].offset = o - 1

\* This step delivers the record with offset o to a loop
Delivers(o) == position' = position + 1 /\ position' = o

NothingAbandoned == \A i \in Slots : orphans[i] = FreeSlot

\* C20 (as claimed): a record whose save has failed and whose offset has
\* been advanced is never delivered again and never persisted in a later
\* state. Stated for the states in which start() has abandoned no loop and
\* no insert is left over from a cancelled task.
C20_NeverPersistedLater ==
    [][\A o \in failed_saves :
          (NothingAbandoned /\ committed >= o /\ NoDoc(o)) =>
              (~Delivers(o) /\ NoDoc(o)')]_vars

\* The record with offset o is lost: a save of it has failed, the group has
\* committed past it, no document holds it and no save of it is in flight
Lost(o) == o \in failed_saves /\ committed >= o /\ NoDoc(o) /\ ~InFlightOf(o)

\* C20 (amended): the commit of offsets never waits for a save: whenever
\* the owner of the partition has fetched past the committed offset the
\* commit can happen, whatever is in flight. A committed offset is never
\* delivered again. A record whose save has failed and whose offset is
\* committed while no other delivery of it is being saved is lost for good:
\* never delivered, never persisted. (A delivery already in flight when the
\* offset is committed may still persist the record.)
C20_PermanentLoss ==
    /\ []((HandleOpen(cons, orphans, owner) /\ committed < position) => ENABLED AutoCommit)
    /\ [](committed <= position)
    /\ [][\A o \in 1..committed : ~Delivers(o)]_vars
    /\ [][\A o \in DOMAIN fate : Lost(o) => (Lost(o)' /\ ~Delivers(o))]_vars

\* C20 witness: the offset was committed while the save was in flight, the
\* save failed, and after a stop and a second start the record is still lost
\* while the next record has been persisted
C20_Witness ==
    /\ starts = 2 /\ cons.consumer_task = "alive"
    /\ Lost(1) /\ fate[1] = "save_failed"
    /\ Len(fate) = 2 /\ fate[2] = "persisted"

(* ------------------------- producer metrics --------------------------- *)
\* The members of the returned list that carry a receipt / carry None
Acknowledged(results) == {i \in DOMAIN results : results[i].ok}
Unacknowledged(results) == {i \in DOMAIN results : ~results[i].ok}

\* C29 (as claimed): the producer's last_message_time changes only in a
\* step in which a send was acknowledged: a send_message that succeeds or a
\* send_batch with at least one acknowledged message.
C29_LastSendTime ==
    [][prod'.last_message_time # prod.last_message_time =>
          \/ Calls("send_message") /\ ~Failed(ret')
          \/ Calls("send_batch") /\ Acknowledged(ret'.results) # {}]_vars

\* C30 (as claimed): a send_batch of N messages on a ready producer adds the
\* number of acknowledged messages to messages_sent and the number of failed
\* messages to messages_failed, the two increments summing to N.
C30_BatchCounters ==
    [][(Calls("send_batch") /\ ~NotReady) =>
          /\ prod'.messages_sent = prod.messages_sent + Cardinality(Acknowledged(ret'.results))
          /\ prod'.messages_failed = prod.messages_failed + Cardinality(Unacknowledged(ret'.results))
          /\ (prod'.messages_sent - prod.messages_sent)
             + (prod'.messages_failed - prod.messages_failed) = Len(ret'.batch)]_vars

(* ------------------------------ buy claims ---------------------------- *)
\* C25 (as claimed): a publish that fails during a buy request reaches the
\* caller as service unavailable (503), the class of a producer that is not
\* ready.
C25_ServiceUnavailable ==
    [][(Calls("buy") /\ ret'.cause # NoError) => ret'.raised = HttpError("503")]_vars

\* C25 (amended): a buy request met by a producer that is not ready is
\* answered 503 and nothing is sent; a buy request whose publish fails at
\* the broker, by timeout or by any other error, is answered 500, a
\* different caller-visible class.
C25_PublishFailure ==
    /\ [][(Calls("buy") /\ ret'.cause # NoError) => ret'.raised = HttpError("500")]_vars
    /\ [][(Calls("buy") /\ ret'.raised = HttpError("503")) =>
             (NotReady /\ sends' = sends /\ log' = log /\ pending' = pending)]_vars

\* C25 witness: a buy request whose publish timed out was answered 500
C25_Witness ==
    /\ ret.op = "buy" /\ ret.raised = HttpError("500")
    /\ IsKafkaTimeoutError(ret.cause)
    /\ prod.messages_failed = 1

\* s is made of spaces only (or is empty)
Blank(s) == \A i \in DOMAIN s : s[i] = " "

\* t is s without its leading and trailing spaces
Trimmed(s, t) ==
    /\ t # <<>> => (t[1] # " " /\ t[Len(t)] # " ")
    /\ \E a \in 0..Len(s) :
          /\ a + Len(t) <= Len(s)
          /\ SubSeq(s, a + 1, a + Len(t)) = t
          /\ Blank(SubSeq(s, 1, a))
          /\ Blank(SubSeq(s, a + Len(t) + 1, Len(s)))

\* The body misses a field or a field of it is empty or whitespace-only
BadBody(body) ==
    \/ ~({"username", "user_id"} \subseteq DOMAIN body)
    \/ Blank(body.username)
    \/ Blank(body.user_id)

\* Dicts offered to the PurchaseEvent model
EventCandidates ==
    {ValidValue, ZeroPriceValue, NegPriceValue, MissingFieldsValue, ExtraKeyValue}

\* C26: producer-side validation. BuyRequest rejects a body that misses a
\* field or whose username or user_id is empty or whitespace-only, and the
\* accepted username and user_id are the inputs without leading and
\* trailing whitespace; PurchaseEvent rejects a missing field and a price
\* <= 0. A rejected buy request is answered 422 and produces no event; the
\* event of an accepted one carries the trimmed username and user_id, and
\* every record a buy request publishes has the trimmed user_id as its key.
C26_Validation ==
    /\ [](\A body \in BuyBodies :
            LET r == BuyRequest(body)
            IN /\ BadBody(body) => ~r.ok
               /\ r.ok => (Trimmed(body.username, r.username) /\ Trimmed(body.user_id, r.user_id)))
    /\ [](\A v \in EventCandidates :
            ModelFieldsOk(v.d) =>
                (Range(PurchaseFields) \subseteq DOMAIN v.d /\ v.d["price"].n > 0))
    /\ [][\A body \in BuyBodies, item \in RANDOM_ITEMS :
             BuyGenerate(body, item) =>
                IF BadBody(body)
                THEN Calls("buy") /\ ret'.raised = HttpError("422") /\ pending' = pending
                ELSE is_connected(prod) =>
                        \E ev \in BagToSet(pending') :
                           /\ CopiesIn(ev, pending') = CopiesIn(ev, pending) + 1
                           /\ ModelFieldsOk(ev.d)
                           /\ Trimmed(body.username, ev.d["username"].s)
                           /\ Trimmed(body.user_id, ev.d["user_id"].s)]_vars
    /\ [](\A i \in DOMAIN log :
            /\ log[i].key = key_serializer(log[i].event.d["user_id"].s)
            /\ \E body \in BuyBodies :
                  /\ ~BadBody(body)
                  /\ Trimmed(body.username, log[i].event.d["username"].s)
                  /\ Trimmed(body.user_id, log[i].event.d["user_id"].s))

\* C26 witness: a padded username and a padded user_id were accepted and the
\* published record carries them trimmed, the key included
C26_Witness ==
    /\ BuyRequest([username |-> <<" ", "a", " ">>, user_id |-> <<"u", " ">>]).ok
    /\ ret.op = "buy" /\ ~Failed(ret)
    /\ Len(log) = 1
    /\ log[1].event.d["user_id"].s = UserA
    /\ log[1].key = key_serializer(UserA)

(* ----------------------------- probe claims --------------------------- *)
\* C28: is_connected() and is_running() are pure predicates. A call of
\* either in any state returns the value of its predicate over the fields
\* (connected and a producer handle; running and a consumer handle) and
\* changes no field of producer or consumer, appends nothing to the topic,
\* issues no send, and moves neither fetch position nor committed offset nor
\* group membership.
C28_PureProbes ==
    /\ [][Calls("is_connected") =>
             ret'.results = <<prod.connected /\ prod.producer # None>>]_vars
    /\ [][Calls("is_running") =>
             ret'.results = <<cons.running /\ cons.consumer # None>>]_vars
    /\ [][(Calls("is_connected") \/ Calls("is_running")) =>
             /\ prod' = prod /\ cons' = cons
             /\ log' = log /\ sends' = sends
             /\ position' = position /\ committed' = committed
             /\ owner' = owner /\ orphans' = orphans
             /\ inflight' = inflight /\ db' = db]_vars

\* C28 witness: is_running() was called on a consumer whose stop() has
\* returned after it processed a record, on a producer that has sent one;
\* it answered false and the counters are as they were
C28_Witness ==
    /\ ret.op = "is_running" /\ ret.results = <<FALSE>>
    /\ cons.consumer_task = "done" /\ cons.consumer = "closed"
    /\ cons.messages_processed = 1
    /\ prod.messages_sent = 1 /\ is_connected(prod)

(* ---------------------------- history claims -------------------------- *)
\* The request of the last history call and what it met
Asked(r) == r.results[1]

\* The documents persisted for user_id
DocsOf(user_id) == {i \in DOMAIN db : db[i].user_id = user_id}

RECURSIVE SumOver(_)
SumOver(idx) ==
    IF idx = {} THEN 0
    ELSE LET i == CHOOSE i \in idx : TRUE IN db[i].price + SumOver(idx \ {i})

\* The instant a timestamp string names
InstantOf(timestamp) == fromisoformat(replace_Z(timestamp)).t

C22_OutcomeMapping ==
    [][Calls("get_all_user_purchases") =>
          LET reply == Asked(ret').reply
          IN /\ (reply.exc = None /\ reply.status = "404") => ret'.raised = HttpError("404")
             /\ reply.exc \in {"ConnectError", "TimeoutException"} => ret'.raised = HttpError("503")
             /\ (reply.exc = None /\ reply.status \notin {"200", "404"}) =>
                   ret'.raised = HttpError("503")
             /\ (reply.exc = None /\ reply.status = "200" /\ PayloadOk(reply.body)) =>
                   /\ ~Failed(ret')
                   /\ Len(ret'.batch) = 1
                   /\ \A f \in {"user_id", "username", "total_purchases", "total_spent", "purchases"} :
                         ret'.batch[1][f] = reply.body[1][f]]_vars

\* C22 witness: a history of two purchases was passed through
C22_Witness ==
    /\ ret.op = "get_all_user_purchases" /\ ~Failed(ret)
    /\ ret.batch[1].total_purchases = 2
    /\ ret.batch[1].user_id = UserA
    /\ Asked(ret).reply.status = "200"

\* C23 (as claimed): with the management API and the collection reachable,
\* the history of a user with at least one persisted purchase is a success
\* whose total_purchases is the number of that user's persisted purchases,
\* whose total_spent is the sum of their prices, and whose purchases are
\* listed newest first.
C23_Aggregates ==
    [][(Calls("get_all_user_purchases") /\ Asked(ret').up = "answered"
        /\ DocsOf(Asked(ret').user_id) # {}) =>
          /\ ~Failed(ret')
          /\ ret'.batch[1].total_purchases = Cardinality(DocsOf(Asked(ret').user_id))
          /\ ret'.batch[1].total_spent = SumOver(DocsOf(Asked(ret').user_id))
          /\ \A i, j \in DOMAIN ret'.batch[1].purchases :
                i < j => InstantOf(ret'.batch[1].purchases[i].timestamp)
                            >= InstantOf(ret'.batch[1].purchases[j].timestamp)]_vars

\* C24 (as claimed): with the management API and the collection reachable,
\* a history call is answered 404 exactly when no persisted purchase has the
\* user_id asked for.
C24_NotFoundIff ==
    [][(Calls("get_all_user_purchases") /\ Asked(ret').up = "answered") =>
          (ret'.raised = HttpError("404") <=> DocsOf(Asked(ret').user_id) = {})]_vars

(* ----------------------------- close claims --------------------------- *)
\* C27: stop() of the producer concurrent with send_message. However the
\* steps of a stop() interleave with sends in flight and with sends
\* arriving, every receipt is for a record that is in the log, acknowledged,
\* and holds the message sent; every send in flight ends, with a receipt or
\* a reported failure; and every send_message that starts after stop() has
\* returned is refused as not connected.
C27_CloseWhilePublishing ==
    /\ [](\A i \in DOMAIN publ :
            publ[i].status = "receipt" =>
               /\ publ[i].offset < Len(log)
               /\ log[publ[i].offset + 1].acked
               /\ log[publ[i].offset + 1].event = publ[i].value)
    /\ \A i \in 1..MaxPublish :
          (i \in DOMAIN publ /\ publ[i].status = "flying")
             ~> (i \in DOMAIN publ /\ publ[i].status \in {"receipt", "failed"})
    /\ [][(Len(publ') > Len(publ) /\ close_pc = "returned") =>
             /\ publ'[Len(publ')].status = "refused"
             /\ ret'.raised = NotConnectedError
             /\ log' = log /\ sends' = sends]_vars

\* C27 witness: a send that was in flight when stop() began got its receipt,
\* a send that arrived while the client was being stopped was reported as
\* failed, and a send after stop() returned was refused
C27_Witness ==
    /\ close_pc = "returned" /\ Len(publ) = 3
    /\ publ[1].pre /\ publ[1].status = "receipt"
    /\ publ[2].status = "failed" /\ ~publ[2].pre
    /\ publ[3].status = "refused"
    /\ prod.producer = "closed"

(* --------------------------- buy outcome claims ----------------------- *)
\* C31: a buy request is answered with success (and the offset of its
\* record) only if the broker acknowledged its event: the answer names a
\* record just appended to the log, acknowledged, holding the event of the
\* request; a valid request met by a producer that is not ready is answered
\* 503 and nothing is sent; a request whose send failed is answered with an
\* error.
C31_SuccessOnlyIfAcked ==
    /\ [][(Calls("buy") /\ ~Failed(ret')) =>
             /\ Len(ret'.results) = 1
             /\ ret'.results[1].ok
             /\ Len(log') = Len(log) + 1
             /\ ret'.results[1].offset = Len(log)
             /\ log'[Len(log')].acked
             /\ BagIn(log'[Len(log')].event, pending)
             /\ pending' = pending (-) SetToBag({log'[Len(log')].event})]_vars
    /\ [][\A body \in BuyBodies, item \in RANDOM_ITEMS :
             (BuyGenerate(body, item) /\ BuyRequest(body).ok /\ NotReady) =>
                /\ Calls("buy")
                /\ ret'.raised = HttpError("503")
                /\ sends' = sends /\ log' = log /\ pending' = pending]_vars
    /\ [][(Calls("buy") /\ ret'.cause # NoError) =>
             /\ Failed(ret')
             /\ ~ret'.results[1].ok]_vars

\* C31 witness: a second buy request was answered with success and the
\* offset of its acknowledged record, after one whose send had failed
C31_Witness ==
    /\ ret.op = "buy" /\ ~Failed(ret)
    /\ ret.results[1].ok /\ ret.results[1].offset = Len(log) - 1
    /\ log[Len(log)].acked
    /\ prod.messages_failed = 1 /\ prod.messages_sent = 1

(* --------------------------- poll loop claims ------------------------- *)
\* The saves a consumer instance is awaiting: that of its current loop,
\* those of loops an earlier start() left behind, and the inserts still
\* running for cancelled loops
SavesInFlight ==
    (IF inflight # <<>> THEN 1 ELSE 0)
    + Cardinality({i \in Slots : orphans[i].inflight # <<>>})

\* The documents of one partition were stored in the order of their offsets
PersistedInOffsetOrder ==
    \A i, j \in DOMAIN db :
        (i < j /\ log[db[i].offset + 1].partition = log[db[j].offset + 1].partition)
            => db[i].offset <= db[j].offset

\* C32 (as claimed): the poll loop is a single sequential worker. A loop
\* awaits at most one save at a time; a consumer instance never has two
\* saves in flight; and the order in which it persists the records of one
\* partition is their offset order.
C32_SequentialWorker ==
    /\ Len(inflight) <= 1
    /\ \A i \in Slots : Len(orphans[i].inflight) <= 1
    /\ SavesInFlight <= 1
    /\ PersistedInOffsetOrder

\* GET /health of the management API: kafka_connected is is_running(), and
\* the service is healthy when the database answers and the consumer runs
health_check(mongodb_connected) ==
    [status |-> IF mongodb_connected /\ is_running(cons) THEN "healthy" ELSE "unhealthy",
     mongodb_connected |-> mongodb_connected,
     kafka_connected |-> is_running(cons)]

\* C33 (as claimed): is_running() tracks the poll loop. In every reachable
\* state is_running() is true only if the poll loop of the consumer is
\* alive; once the loop has ended, by stop(), by cancellation or by an error
\* raised while fetching, is_running() is false and the health check does
\* not report the consumer as connected.
C33_TracksPollLoop ==
    /\ is_running(cons) => cons.consumer_task = "alive"
    /\ cons.consumer_task = "done" =>
          \A m \in BOOLEAN : /\ ~health_check(m).kafka_connected
                             /\ health_check(m).status = "unhealthy"

(* --------------------------- gateway outcomes ------------------------- *)
\* C34 (as claimed): every history call ends as a success, as 404
\* (NotFound) or as 503 (Unavailable), whatever the upstream does.
C34_ThreeOutcomes ==
    [][Calls("get_all_user_purchases") =>
          ret'.raised \in {NoError, HttpError("404"), HttpError("503")}]_vars

\* The request met something the gateway has no outcome of its own for: an
\* exception other than a timeout or a connection error, or a 200 whose
\* payload is no purchases response
Unexpected(reply) ==
    \/ reply.exc \notin {None, "TimeoutException", "ConnectError"}
    \/ reply.exc = None /\ reply.status = "200" /\ ~PayloadOk(reply.body)

\* C34 (amended): every history call ends in exactly one of four outcomes:
\* a success carrying one body, 404, 503, or 500. It ends as 500 exactly
\* when the request raised an exception other than a timeout or a
\* connection error or a 200 arrived whose payload is no purchases response;
\* a failed call carries no body.
C34_FourOutcomes ==
    [][Calls("get_all_user_purchases") =>
          /\ ret'.raised \in {NoError, HttpError("404"), HttpError("503"), HttpError("500")}
          /\ ret'.raised = HttpError("500") <=> Unexpected(Asked(ret').reply)
          /\ Len(ret'.batch) = IF Failed(ret') THEN 0 ELSE 1]_vars

\* C34 witness: a history call whose upstream answered 200 with a JSON
\* object lacking the aggregate members ended as 500, purchases of the user
\* being persisted
C34_Witness ==
    /\ ret.op = "get_all_user_purchases" /\ ret.raised = HttpError("500")
    /\ Asked(ret).up = "incomplete" /\ Asked(ret).reply.status = "200"
    /\ DocsOf(Asked(ret).user_id) # {}

(* --------------------------- delivery claims -------------------------- *)
\* The record with offset o (counted from 1) holds a valid event whose
\* publish the broker acknowledged
AckedValid(o) == o \in DOMAIN log /\ log[o].acked /\ ValidEvent(log[o].event)

\* C35 (as claimed): eventual persistence. If from some moment on the
\* consumer is running for good and no save ever fails, every valid event
\* whose publish was acknowledged is eventually persisted, whether it was
\* published before or after the consumer started.
C35_EventualPersistence ==
    (<>[]is_running(cons) /\ [](failed_saves = {})) =>
        \A o \in 1..MaxLog : AckedValid(o) ~> ~NoDoc(o)

\* The number of documents stored for the record with offset o (counted
\* from 1), and the number of saves of it that are being awaited
Docs(o) == Cardinality({i \in DOMAIN db : db[i].offset = o - 1})

SavesOf(o) ==
    (IF inflight # <<>> /\ inflight[1].offset = o - 1 THEN 1 ELSE 0)
    + Cardinality({i \in Slots : orphans[i].inflight # <<>> /\ orphans[i].inflight[1].offset = o - 1})

OpenConnections == (IF prod.producer \in {"open", "closing"} THEN 1 ELSE 0) + leaked

\* C37 (as claimed): one connection per producer instance. After any
\* sequence of start() and stop() calls the instance holds at most one open
\* broker connection, and every connection it ever opened is the one it
\* holds now or has been released.
C37_OneConnection ==
    /\ OpenConnections <= 1
    /\ leaked = 0
====
